---- MODULE Spec2Model ----
(***************************************************************************)
(* Product Availability & Pricing Normalization Service.                   *)
(*                                                                         *)
(* The model covers the vendor pipeline: the per-vendor circuit breaker,   *)
(* the retry loop around each vendor call, the concurrent fan-out, the     *)
(* price/stock selection rule, the result cache and the bookkeeping kept   *)
(* in the key-value store.  Prices are kept in cents, times in seconds.    *)
(***************************************************************************)
EXTENDS Integers, Sequences, FiniteSets, TLC

----------------------------------------------------------------------------
(* Settings (config.py) and the literals of cache_service.py               *)

CACHE_TTL_SECONDS == 120
MAX_RETRIES == 2
DATA_FRESHNESS_MINUTES == 10
PRICE_DIFFERENCE_THRESHOLD_PCT == 10
CIRCUIT_FAILURE_THRESHOLD == 3
CIRCUIT_COOLDOWN_SECONDS == 30
CIRCUIT_TTL_SECONDS == 3600
PERFORMANCE_TTL_SECONDS == 86400
SKU_REQUESTS_TTL_SECONDS == 86400

Vendors == {"vendor1", "vendor2", "vendor3"}
VendorOrder == <<"vendor1", "vendor2", "vendor3">>

----------------------------------------------------------------------------
(* Bounds of the model                                                      *)

MaxOffers == 3
MaxTime == 150
CallHorizon == 60
ServiceHorizon == 30
MaxCalls == 5
TickSeconds == 30
MaxRaceCalls == 3
RaceHorizon == 30
NormalizeClock == 7200
NormalizeTick == 60
NormalizeHorizon == 7860
RecoverAt == 30
RecoverHorizon == 60
MaxRecoverCalls == 3
OutageHorizon == 30
BlindHorizon == 3600

----------------------------------------------------------------------------
(* Optional values: None is the empty tuple, a present value a 1-tuple      *)

None == << >>
Some(x) == << x >>
IsNone(o) == o = << >>
Val(o) == o[1]

VARIABLES
    now,        \* wall clock, seconds
    storeUp,    \* whether the key-value store answers
    circuit,    \* store: circuit:{vendor}
    perf,       \* store: performance:{vendor}
    cache,      \* store: product:{sku}
    skuReq,     \* store: sku_requests:{sku}
    req,        \* GetProduct request handlers
    task,       \* breaker-wrapped vendor calls, per caller and vendor
    ncalls,     \* number of calls issued so far (bounded by MaxCalls)
    offers,     \* argument of a direct select_best_vendor call
    result,     \* its return value
    got,        \* the last direct get_product call and what it returned
    setLog,     \* per SKU, the last set_product call: its argument and time
    payload,    \* a vendor's raw response handed to its adapter
    normalized  \* what the adapter made of it

vars == << now, storeUp, circuit, perf, cache, skuReq, req, task, ncalls,
           offers, result, got, setLog, payload, normalized >>

----------------------------------------------------------------------------
(* models.py                                                                *)

\* NormalizedProduct
NormalizedProduct(sku, vendor, stock, price, ts, valid) ==
    [sku |-> sku, vendor_name |-> vendor, stock |-> stock, price |-> price,
     timestamp |-> ts, is_valid |-> valid]

\* ProductResponse; best_vendor, price and stock are Optional
ProductResponse(sku, best_vendor, price, stock, status, vendors_checked) ==
    [sku |-> sku, best_vendor |-> best_vendor, price |-> price,
     stock |-> stock, status |-> status,
     vendors_checked |-> vendors_checked, cache_hit |-> FALSE]

\* Marks a call that ended by raising instead of returning
Raised(what) == [raised |-> what]
IsRaised(x) == "raised" \in DOMAIN x

----------------------------------------------------------------------------
(* business_logic.py                                                        *)

\* Place p in a price-sorted list after every element whose price is <= its
\* own: inserting the elements left to right this way is a stable sort.
RECURSIVE InsertByPrice(_, _)
InsertByPrice(p, s) ==
    IF s = << >> THEN << p >>
    ELSE IF Head(s).price <= p.price
         THEN << Head(s) >> \o InsertByPrice(p, Tail(s))
         ELSE << p >> \o s

\* As SortedByPrice, leaving the list in the order given
Unsorted(s) == s

\* sorted(products, key=lambda p: p.price)
RECURSIVE SortedByPrice(_)
SortedByPrice(s) ==
    IF s = << >> THEN << >>
    ELSE InsertByPrice(s[Len(s)], SortedByPrice(SubSeq(s, 1, Len(s) - 1)))

\* As PriceDifferenceExceeds, with >= for >
PriceDifferenceReaches(price, lowest) ==
    IF lowest > 0
    THEN (price - lowest) * 100 >= PRICE_DIFFERENCE_THRESHOLD_PCT * lowest
    ELSE (price - lowest) * 100 <= PRICE_DIFFERENCE_THRESHOLD_PCT * lowest

\* (product.price - lowest.price) / lowest.price > PRICE_DIFFERENCE_THRESHOLD,
\* for a non-zero lowest price, without the division
PriceDifferenceExceeds(price, lowest) ==
    IF lowest > 0
    THEN (price - lowest) * 100 > PRICE_DIFFERENCE_THRESHOLD_PCT * lowest
    ELSE (price - lowest) * 100 < PRICE_DIFFERENCE_THRESHOLD_PCT * lowest

\* The for loop of _apply_enhanced_selection_rules from position i on
RECURSIVE ScanFrom(_, _, _)
ScanFrom(byPrice, lowest, i) ==
    IF i > Len(byPrice) THEN lowest
    ELSE IF /\ PriceDifferenceExceeds(byPrice[i].price, lowest.price)
            /\ byPrice[i].stock > lowest.stock
         THEN byPrice[i]
         ELSE ScanFrom(byPrice, lowest, i + 1)

\* The division raises ZeroDivisionError on the first pass of the loop
SelectionRaises(products) ==
    /\ Len(products) > 1
    /\ SortedByPrice(products)[1].price = 0

apply_enhanced_selection_rules(products) ==
    IF Len(products) = 1 THEN products[1]
    ELSE LET byPrice == SortedByPrice(products)
         IN  ScanFrom(byPrice, byPrice[1], 2)

IsValid(p) == p.is_valid

\* As InStock, with >= for >
InStockOrNone(p) == p.stock >= 0

InStock(p) == p.stock > 0

\* As VendorsChecked, counting the valid products only
VendorsCheckedValid(products) == Len(SelectSeq(products, IsValid))

\* Line 30: vendors_checked = len(products)
VendorsChecked(products) == Len(products)

\* As EmptyProductsResponse, without the guard: products[0] raises
EmptyProductsRaises == Raised("IndexError")

\* Lines 19-27: what an empty list of products is answered with
EmptyProductsResponse ==
    ProductResponse("UNKNOWN", None, None, None, "OUT_OF_STOCK", 0)

select_best_vendor(products) ==
    IF products = << >>
    THEN EmptyProductsResponse
    ELSE LET sku == products[1].sku
             vendors_checked == VendorsChecked(products)
             valid_products == SelectSeq(products, IsValid)
             in_stock_products == SelectSeq(valid_products, InStock)
         IN  IF valid_products = << >> \/ in_stock_products = << >>
             THEN ProductResponse(sku, None, None, None, "OUT_OF_STOCK",
                                  vendors_checked)
             ELSE IF SelectionRaises(in_stock_products)
             THEN Raised("ZeroDivisionError")
             ELSE LET best == apply_enhanced_selection_rules(in_stock_products)
                  IN  ProductResponse(sku, Some(best.vendor_name),
                                      Some(best.price), Some(best.stock),
                                      "AVAILABLE", vendors_checked)


----------------------------------------------------------------------------
(* The key-value store and cache_service.py                                 *)

\* JSON values written by json.dumps(..., default=str): None becomes null and
\* a datetime becomes its text.
JNull == << "null" >>
JText(t) == << "text", t >>
ToJson(opt) == IF IsNone(opt) THEN JNull ELSE JText(Val(opt))
\* data.get(k) is falsy for null; datetime.fromisoformat reads the text back
FromJson(j) == IF j[1] = "null" THEN None ELSE Some(j[2])

\* setex(key, ttl, value): the value with the time at which it expires
Entry(doc, ttl) == Some([doc |-> doc, exp |-> now + ttl])
\* get(key): a value is returned until its time to live has elapsed
Live(e) == ~IsNone(e) /\ now < Val(e).exp

\* CircuitBreakerState(vendor_name=...) with the defaults of models.py
CircuitBreakerState(vendor) ==
    [vendor_name |-> vendor, state |-> "CLOSED", failure_count |-> 0,
     last_failure_time |-> None, next_attempt_time |-> None]

\* json.dumps(state.dict(), default=str)
DumpsCircuit(st) ==
    [vendor_name |-> st.vendor_name, state |-> st.state,
     failure_count |-> st.failure_count,
     last_failure_time |-> ToJson(st.last_failure_time),
     next_attempt_time |-> ToJson(st.next_attempt_time)]

\* CircuitBreakerState(**data) after the timestamps are parsed back
LoadsCircuit(doc) ==
    [vendor_name |-> doc.vendor_name, state |-> doc.state,
     failure_count |-> doc.failure_count,
     last_failure_time |-> FromJson(doc.last_failure_time),
     next_attempt_time |-> FromJson(doc.next_attempt_time)]

\* As get_circuit_state, a state that cannot be read being taken for OPEN
get_circuit_state_or_open(vendor) ==
    IF storeUp /\ Live(circuit[vendor])
    THEN LoadsCircuit(Val(circuit[vendor]).doc)
    ELSE [CircuitBreakerState(vendor) EXCEPT !.state = "OPEN"]

get_circuit_state(vendor) ==
    IF storeUp /\ Live(circuit[vendor])
    THEN LoadsCircuit(Val(circuit[vendor]).doc)
    ELSE CircuitBreakerState(vendor)

\* As update_circuit_state, with one entry shared by the vendors
update_circuit_state_shared(st) ==
    IF storeUp
    THEN [v \in Vendors |-> Entry(DumpsCircuit(st), CIRCUIT_TTL_SECONDS)]
    ELSE circuit

\* The circuit store after update_circuit_state(st); a failed write is logged
\* and dropped
update_circuit_state(st) ==
    IF storeUp
    THEN [circuit EXCEPT ![st.vendor_name] =
              Entry(DumpsCircuit(st), CIRCUIT_TTL_SECONDS)]
    ELSE circuit

\* VendorPerformance(vendor_name=...); avg_latency_ms is kept as the exact
\* fraction num/den
VendorPerformance(vendor) ==
    [vendor_name |-> vendor, total_requests |-> 0,
     successful_requests |-> 0, failed_requests |-> 0,
     avg_latency_ms |-> [num |-> 0, den |-> 1], last_failure |-> None]

DumpsPerformance(p) == [p EXCEPT !.last_failure = ToJson(p.last_failure)]
LoadsPerformance(doc) == [doc EXCEPT !.last_failure = FromJson(doc.last_failure)]

\* get_vendor_performance read from the store contents ps
PerformanceIn(ps, vendor) ==
    IF storeUp /\ Live(ps[vendor])
    THEN LoadsPerformance(Val(ps[vendor]).doc)
    ELSE VendorPerformance(vendor)

get_vendor_performance(vendor) == PerformanceIn(perf, vendor)

\* (avg * (n - 1) + latency) / n over exact fractions
NextAverage(avg, n, latency_ms) ==
    IF n = 1 THEN [num |-> latency_ms, den |-> 1]
    ELSE IF avg.den = n - 1
         THEN [num |-> avg.num + latency_ms, den |-> n]
         ELSE [num |-> avg.num * (n - 1) + latency_ms * avg.den,
               den |-> avg.den * n]

\* As RecordPerformance, counting a failure in total_requests only
RecordPerformanceDropsFailure(ps, vendor, success, latency_ms) ==
    LET old == PerformanceIn(ps, vendor)
        n == old.total_requests + 1
        new == [old EXCEPT
                  !.total_requests = n,
                  !.successful_requests = IF success THEN @ + 1 ELSE @,
                  !.last_failure = IF success THEN @ ELSE Some(now),
                  !.avg_latency_ms = NextAverage(@, n, latency_ms)]
    IN  IF storeUp
        THEN [ps EXCEPT ![vendor] =
                  Entry(DumpsPerformance(new), PERFORMANCE_TTL_SECONDS)]
        ELSE ps

\* The performance store after update_vendor_performance on contents ps
RecordPerformance(ps, vendor, success, latency_ms) ==
    LET old == PerformanceIn(ps, vendor)
        n == old.total_requests + 1
        new == [old EXCEPT
                  !.total_requests = n,
                  !.successful_requests = IF success THEN @ + 1 ELSE @,
                  !.failed_requests = IF success THEN @ ELSE @ + 1,
                  !.last_failure = IF success THEN @ ELSE Some(now),
                  !.avg_latency_ms = NextAverage(@, n, latency_ms)]
    IN  IF storeUp
        THEN [ps EXCEPT ![vendor] =
                  Entry(DumpsPerformance(new), PERFORMANCE_TTL_SECONDS)]
        ELSE ps

update_vendor_performance(vendor, success, latency_ms) ==
    RecordPerformance(perf, vendor, success, latency_ms)

\* json.dumps(product.dict(), default=str) with cache_hit reset
DumpsProduct(r) ==
    [sku |-> r.sku,
     best_vendor |-> ToJson(r.best_vendor),
     price |-> ToJson(r.price),
     stock |-> ToJson(r.stock),
     status |-> r.status,
     vendors_checked |-> r.vendors_checked,
     cache_hit |-> FALSE]

\* As LoadsProduct, without data['cache_hit'] = True
LoadsProductAsStored(doc) ==
    [sku |-> doc.sku,
     best_vendor |-> FromJson(doc.best_vendor),
     price |-> FromJson(doc.price),
     stock |-> FromJson(doc.stock),
     status |-> doc.status,
     vendors_checked |-> doc.vendors_checked,
     cache_hit |-> doc.cache_hit]

\* ProductResponse(**data) after data['cache_hit'] = True
LoadsProduct(doc) ==
    [sku |-> doc.sku,
     best_vendor |-> FromJson(doc.best_vendor),
     price |-> FromJson(doc.price),
     stock |-> FromJson(doc.stock),
     status |-> doc.status,
     vendors_checked |-> doc.vendors_checked,
     cache_hit |-> TRUE]

\* As get_product, without the except branch: a store error is raised
get_product_raising(sku) ==
    IF ~storeUp THEN Some(Raised("ConnectionError"))
    ELSE IF Live(cache[sku])
    THEN Some(LoadsProduct(Val(cache[sku]).doc))
    ELSE None

\* get_product: Some(result) on a hit, None on a miss or a store error
get_product(sku) ==
    IF storeUp /\ Live(cache[sku])
    THEN Some(LoadsProduct(Val(cache[sku]).doc))
    ELSE None

\* The product cache after set_product(sku, product)
\* As set_product, leaving a live entry of the SKU as it is
set_product_if_absent(sku, product) ==
    IF storeUp /\ ~Live(cache[sku])
    THEN [cache EXCEPT ![sku] = Entry(DumpsProduct(product), CACHE_TTL_SECONDS)]
    ELSE cache

\* As set_product, writing only the results some vendor's offer went into
set_product_with_offers(sku, product) ==
    IF storeUp /\ product.vendors_checked > 0
    THEN [cache EXCEPT ![sku] = Entry(DumpsProduct(product), CACHE_TTL_SECONDS)]
    ELSE cache

set_product(sku, product) ==
    IF storeUp
    THEN [cache EXCEPT ![sku] = Entry(DumpsProduct(product), CACHE_TTL_SECONDS)]
    ELSE cache

\* The counters after increment_sku_requests(sku): INCR, then EXPIRE
\* As increment_sku_requests, counting only the requests that will miss
increment_sku_requests_on_miss(sku) ==
    IF storeUp /\ ~Live(cache[sku])
    THEN [skuReq EXCEPT ![sku] =
              Some([doc |-> (IF Live(@) THEN Val(@).doc ELSE 0) + 1,
                    exp |-> now + SKU_REQUESTS_TTL_SECONDS])]
    ELSE skuReq

increment_sku_requests(sku) ==
    IF storeUp
    THEN [skuReq EXCEPT ![sku] =
              Some([doc |-> (IF Live(@) THEN Val(@).doc ELSE 0) + 1,
                    exp |-> now + SKU_REQUESTS_TTL_SECONDS])]
    ELSE skuReq


----------------------------------------------------------------------------
(* vendor_service.py: the three adapters                                    *)

\* A timestamp text is either well formed for its parser, standing for the
\* time t, or not
GoodText(t) == << "ok", t >>
BadText == << "bad" >>
\* An ISO text with a UTC offset ("Z" or "+hh:mm"): fromisoformat reads the
\* wall-clock time and the offset, and replace(tzinfo=None) keeps the
\* wall-clock time alone
ZonedText(wall, offset) == << "ok", wall, offset >>
Parses(text) == text[1] = "ok"
Parsed(text) == text[2]

\* timedelta(minutes=DATA_FRESHNESS_MINUTES) in seconds
FreshnessSeconds == DATA_FRESHNESS_MINUTES * 60
IsFresh(timestamp) == now - timestamp <= FreshnessSeconds

\* As Vendor1Stock, taking a count of 0 for an absent one
Vendor1StockDefaultsOnZero(response) ==
    IF response.availability # "IN_STOCK" THEN 0
    ELSE IF IsNone(response.inventory_count)
            \/ Val(response.inventory_count) = 0
         THEN 5
         ELSE Val(response.inventory_count)

\* Lines 173-178: the stock rule of vendor 1
Vendor1Stock(response) ==
    IF IsNone(response.inventory_count) /\ response.availability = "IN_STOCK"
    THEN 5
    ELSE IF response.availability = "IN_STOCK"
         THEN Val(response.inventory_count)
         ELSE 0

normalize_vendor1_response(response) ==
    LET stock == Vendor1Stock(response)
        timestamp == Parsed(response.last_updated)
    IN  NormalizedProduct(response.product_id, "vendor1", stock,
                          response.unit_price, timestamp,
                          response.unit_price > 0 /\ IsFresh(timestamp))

\* As ParsePrice, without the removal of the "$"
ParsePriceKeepsSymbol(cost_per_unit) ==
    IF cost_per_unit.symbol = "" /\ ~IsNone(cost_per_unit.amount)
    THEN Val(cost_per_unit.amount)
    ELSE 0

\* A cost_per_unit text is a symbol ("" for none) followed by the text of a
\* number, or by a text that is no number (amount None).
\* float(cost_per_unit.replace('$', '')), 0.0 when that raises ValueError
ParsePrice(cost_per_unit) ==
    IF cost_per_unit.symbol \in {"", "$"} /\ ~IsNone(cost_per_unit.amount)
    THEN Val(cost_per_unit.amount)
    ELSE 0

normalize_vendor2_response(response) ==
    LET price == ParsePrice(response.cost_per_unit)
        stock == IF response.stock_status = "AVAILABLE"
                 THEN response.quantity_on_hand ELSE 0
        timestamp == response.timestamp
    IN  NormalizedProduct(response.sku, "vendor2", stock, price, timestamp,
                          price > 0 /\ IsFresh(timestamp))

\* A stock level is << "int", n >> for the text of the integer n and
\* << "word", w >> for any other text w
IsEmptyText(level) == level[1] = "word" /\ level[2] = ""

\* As ParseStockLevel, taking every word that is not HIGH for LOW
ParseStockLevelWordsLow(level) ==
    IF level[1] = "int" THEN level[2]
    ELSE IF level[2] = "HIGH" THEN 25
    ELSE 3

\* int(stock_level), else the LOW / HIGH words, else 0
ParseStockLevel(level) ==
    IF level[1] = "int" THEN level[2]
    ELSE IF level[2] = "LOW" THEN 3
    ELSE IF level[2] = "HIGH" THEN 25
    ELSE 0

normalize_vendor3_response(response) ==
    LET stock == IF response.status = "ACTIVE"
                    /\ ~IsNone(response.stock_level)
                    /\ ~IsEmptyText(Val(response.stock_level))
                 THEN ParseStockLevel(Val(response.stock_level))
                 ELSE 0
        timestamp == Parsed(response.data_timestamp)
        price == IF IsNone(response.price_amount)
                 THEN 0 ELSE Val(response.price_amount)
    IN  NormalizedProduct(response.item_code, "vendor3", stock, price,
                          timestamp, price > 0 /\ IsFresh(timestamp))

\* The text each adapter parses into a timestamp; a text it cannot parse
\* raises ValueError out of the adapter
TimestampText(vendor, response) ==
    CASE vendor = "vendor1" -> response.last_updated
      [] vendor = "vendor2" -> GoodText(response.timestamp)
      [] OTHER -> response.data_timestamp

NormalizeRaises(vendor, response) == ~Parses(TimestampText(vendor, response))

Normalize(vendor, response) ==
    CASE vendor = "vendor1" -> normalize_vendor1_response(response)
      [] vendor = "vendor2" -> normalize_vendor2_response(response)
      [] OTHER -> normalize_vendor3_response(response)

\* Raw responses of the three vendors
Vendor1Response(sku, availability, inventory_count, unit_price, last_updated) ==
    [product_id |-> sku, availability |-> availability,
     inventory_count |-> inventory_count, unit_price |-> unit_price,
     last_updated |-> last_updated]

Vendor2Response(sku, stock_status, quantity_on_hand, cost_per_unit, timestamp) ==
    [sku |-> sku, stock_status |-> stock_status,
     quantity_on_hand |-> quantity_on_hand, cost_per_unit |-> cost_per_unit,
     timestamp |-> timestamp]

Vendor3Response(sku, status, stock_level, price_amount, data_timestamp) ==
    [item_code |-> sku, status |-> status, stock_level |-> stock_level,
     price_amount |-> price_amount, data_timestamp |-> data_timestamp]

Dollars(cents) == [symbol |-> "$", amount |-> Some(cents)]


----------------------------------------------------------------------------
(* Callers, SKUs and what the vendor transports may answer                  *)

Requests == {"r1", "r2"}
Direct == {"t1", "t2"}
Callers == Requests \cup Direct
Skus == {"ABC123", "OUT123", "NULL123", "ODD999"}

\* time.time() differences; vendor 3 sleeps half a second before answering
LatencyMs(vendor) == IF vendor = "vendor3" THEN 500 ELSE 0

\* What vendor 1 answers for a SKU at the present time (lines 68-74)
Vendor1Answer(sku) ==
    Vendor1Response(sku,
                    IF sku # "OUT123" THEN "IN_STOCK" ELSE "OUT_OF_STOCK",
                    IF sku = "NULL123" THEN None ELSE Some(10),
                    1999,
                    IF sku = "ODD999" THEN BadText ELSE GoodText(now))

\* What vendor 2 answers (lines 104-110)
Vendor2Answer(sku) ==
    Vendor2Response(sku,
                    IF sku # "OUT123" THEN "AVAILABLE" ELSE "UNAVAILABLE",
                    IF sku # "OUT123" THEN 15 ELSE 0,
                    IF sku = "ODD999"
                    THEN [symbol |-> "", amount |-> None] ELSE Dollars(1850),
                    now)

\* What vendor 3 answers (lines 147-153)
Vendor3Answer(sku) ==
    Vendor3Response(sku,
                    IF sku # "OUT123" THEN "ACTIVE" ELSE "INACTIVE",
                    IF sku = "OUT123" THEN None
                    ELSE IF sku = "ODD999" THEN Some(<< "word", "HIGH" >>)
                    ELSE Some(<< "int", 20 >>),
                    Some(IF sku = "ODD999" THEN 2400 ELSE 1775),
                    GoodText(now - 120))

\* The answers a vendor transport may give for a SKU at the present time.
\* ODD999 stands for data the demo answers never carry: a timestamp that
\* does not parse, a price that is no number, a stock level in words.
Responses(vendor, sku) ==
    CASE vendor = "vendor1" -> { Vendor1Answer(sku) }
      [] vendor = "vendor2" -> { Vendor2Answer(sku) }
      [] OTHER -> { Vendor3Answer(sku) }

----------------------------------------------------------------------------
(* circuit_breaker.py                                                       *)

\* As ShortCircuits, with the comparison of line 28 turned around
ShortCircuitsReversed(st) ==
    /\ st.state = "OPEN"
    /\ ~(~IsNone(st.next_attempt_time) /\ now <= Val(st.next_attempt_time))

\* As ShortCircuits, turning away also the calls that read HALF_OPEN, so
\* that one call alone probes
ShortCircuitsWhileProbed(st) ==
    \/ st.state = "HALF_OPEN"
    \/ /\ st.state = "OPEN"
       /\ ~(~IsNone(st.next_attempt_time) /\ now >= Val(st.next_attempt_time))

\* Lines 27-34: the circuit is open and the cooldown has not passed
ShortCircuits(st) ==
    /\ st.state = "OPEN"
    /\ ~(~IsNone(st.next_attempt_time) /\ now >= Val(st.next_attempt_time))

\* As StateOnEntry, going on to the function without the move to half-open
StateOnEntryStaysOpen(st) == st

\* As StateOnEntry, the move to half-open forgetting the failures counted
StateOnEntryForgetsFailures(st) ==
    IF st.state = "OPEN"
    THEN [st EXCEPT !.state = "HALF_OPEN", !.failure_count = 0]
    ELSE st

\* Lines 28-31: the state with which the call goes on to the function
StateOnEntry(st) ==
    IF st.state = "OPEN" THEN [st EXCEPT !.state = "HALF_OPEN"] ELSE st

\* As ResetsOnSuccess, resetting after every success
ResetsAlways(st) == st.state \in {"CLOSED", "OPEN", "HALF_OPEN"}

\* Line 41
ResetsOnSuccess(st) == st.state = "HALF_OPEN" \/ st.failure_count > 0

\* As StateOnSuccess, closing the circuit but keeping the failure count
StateOnSuccessKeepsCount(st) ==
    IF ResetsOnSuccess(st)
    THEN [st EXCEPT !.state = "CLOSED",
                    !.last_failure_time = None, !.next_attempt_time = None]
    ELSE st

\* As StateOnSuccess, leaving next_attempt_time as it was
StateOnSuccessKeepsNextAttempt(st) ==
    IF ResetsOnSuccess(st)
    THEN [st EXCEPT !.state = "CLOSED", !.failure_count = 0,
                    !.last_failure_time = None]
    ELSE st

\* Lines 41-46: the caller's state after a success
StateOnSuccess(st) ==
    IF ResetsOnSuccess(st)
    THEN [st EXCEPT !.state = "CLOSED", !.failure_count = 0,
                    !.last_failure_time = None, !.next_attempt_time = None]
    ELSE st

\* As StateOnFailure, opening only above the threshold
StateOnFailureLate(st) ==
    LET count == st.failure_count + 1
    IN  IF count > CIRCUIT_FAILURE_THRESHOLD
        THEN [st EXCEPT !.failure_count = count,
                        !.last_failure_time = Some(now),
                        !.state = "OPEN",
                        !.next_attempt_time =
                            Some(now + CIRCUIT_COOLDOWN_SECONDS)]
        ELSE [st EXCEPT !.failure_count = count,
                        !.last_failure_time = Some(now)]

\* As StateOnFailure, opening the circuit without a next_attempt_time
StateOnFailureNeverReopens(st) ==
    LET count == st.failure_count + 1
    IN  IF count >= CIRCUIT_FAILURE_THRESHOLD
        THEN [st EXCEPT !.failure_count = count,
                        !.last_failure_time = Some(now),
                        !.state = "OPEN"]
        ELSE [st EXCEPT !.failure_count = count,
                        !.last_failure_time = Some(now)]

\* Lines 52-58: the caller's state after a failure
StateOnFailure(st) ==
    LET count == st.failure_count + 1
    IN  IF count >= CIRCUIT_FAILURE_THRESHOLD
        THEN [st EXCEPT !.failure_count = count,
                        !.last_failure_time = Some(now),
                        !.state = "OPEN",
                        !.next_attempt_time =
                            Some(now + CIRCUIT_COOLDOWN_SECONDS)]
        ELSE [st EXCEPT !.failure_count = count,
                        !.last_failure_time = Some(now)]

\* One breaker-wrapped vendor call of a caller: where it stands, the state
\* it read on entry, its own copy of the state, the attempt of the retry
\* loop, and once settled what it returned and from which return statement
IdleTask(vendor) ==
    [pc |-> "none", sku |-> "", read |-> CircuitBreakerState(vendor),
     state |-> CircuitBreakerState(vendor), attempt |-> 0, res |-> None,
     how |-> ""]

Settled(t, st, res, how) ==
    [t EXCEPT !.pc = "settled", !.state = st, !.res = res, !.how = how]

\* CircuitBreaker.call up to the first await of the wrapped function:
\* read the state, return at once on an open circuit, otherwise move an
\* open circuit to half-open, persist it, and start attempt 0.  A direct
\* caller has consumed the return value of its previous call by then.
EnterCall(c, v, sku) ==
    LET st == get_circuit_state(v)
        t == [IdleTask(v) EXCEPT !.sku = sku, !.read = st]
        others == [w \in Vendors |->
                      IF task[c][w].pc = "settled" /\ c \in Direct
                      THEN IdleTask(w) ELSE task[c][w]]
    IN  IF ShortCircuits(st)
        THEN /\ task' = [task EXCEPT ![c] =
                            [others EXCEPT ![v] =
                                Settled(t, st, None, "short_circuit")]]
             /\ UNCHANGED circuit
        ELSE /\ task' = [task EXCEPT ![c] =
                            [others EXCEPT ![v] =
                                [t EXCEPT !.pc = "attempt",
                                          !.state = StateOnEntry(st)]]]
             /\ circuit' = IF st.state = "OPEN"
                           THEN update_circuit_state(StateOnEntry(st))
                           ELSE circuit

\* The wrapped function returned: lines 41-48
CallSucceeded(c, v, product) ==
    LET t == task[c][v]
    IN  /\ task' = [task EXCEPT ![c][v] =
                       Settled(t, StateOnSuccess(t.state), Some(product), "ok")]
        /\ circuit' = IF ResetsOnSuccess(t.state)
                      THEN update_circuit_state(StateOnSuccess(t.state))
                      ELSE circuit

\* As CallFailed, counting the failure on the state persisted at that time
\* and not on the state the call read on entry
CallFailedOnPersisted(c, v) ==
    LET t == task[c][v]
        st == StateOnFailure(get_circuit_state(v))
    IN  /\ task' = [task EXCEPT ![c][v] = Settled(t, st, None, "failed")]
        /\ circuit' = update_circuit_state(st)

\* The wrapped function raised: lines 50-62
CallFailed(c, v) ==
    LET t == task[c][v]
    IN  /\ task' = [task EXCEPT ![c][v] =
                       Settled(t, StateOnFailure(t.state), None, "failed")]
        /\ circuit' = update_circuit_state(StateOnFailure(t.state))

----------------------------------------------------------------------------
(* vendor_service.py: the retry loop                                        *)

\* As AttemptFailed, giving up one attempt early
AttemptFailedEarly(c, v) ==
    IF task[c][v].attempt >= MAX_RETRIES - 1
    THEN CallFailed(c, v)
    ELSE /\ task' = [task EXCEPT ![c][v].pc = "backoff"]
         /\ UNCHANGED circuit

\* As AttemptFailed, the circuit breaker counting every failed attempt
AttemptFailedCountedByBreaker(c, v) ==
    IF task[c][v].attempt = MAX_RETRIES
    THEN CallFailed(c, v)
    ELSE LET st == StateOnFailure(task[c][v].state)
         IN  /\ task' = [task EXCEPT ![c][v].pc = "backoff",
                                     ![c][v].state = st]
             /\ circuit' = update_circuit_state(st)

\* The except branch of an attempt, after the failure has been recorded
AttemptFailed(c, v) ==
    IF task[c][v].attempt = MAX_RETRIES
    THEN CallFailed(c, v)
    ELSE /\ task' = [task EXCEPT ![c][v].pc = "backoff"]
         /\ UNCHANGED circuit

\* The vendor answered an attempt: the success is recorded, the answer is
\* normalized and returned; an answer the adapter cannot parse raises
\* inside the try block and is handled as a failed attempt.
AttemptReturns(c, v) ==
    /\ task[c][v].pc = "attempt"
    /\ \E response \in Responses(v, task[c][v].sku) :
         LET recorded == RecordPerformance(perf, v, TRUE, LatencyMs(v))
         IN  IF NormalizeRaises(v, response)
             THEN /\ perf' = RecordPerformance(recorded, v, FALSE, LatencyMs(v))
                  /\ AttemptFailed(c, v)
             ELSE /\ perf' = recorded
                  /\ CallSucceeded(c, v, Normalize(v, response))
    /\ UNCHANGED << now, storeUp, cache, skuReq, req, ncalls, offers, result,
                    got, setLog, payload, normalized >>

\* The vendor did not answer an attempt (transport error or timeout)
AttemptFails(c, v) ==
    /\ task[c][v].pc = "attempt"
    /\ perf' = update_vendor_performance(v, FALSE, LatencyMs(v))
    /\ AttemptFailed(c, v)
    /\ UNCHANGED << now, storeUp, cache, skuReq, req, ncalls, offers, result,
                    got, setLog, payload, normalized >>

\* asyncio.sleep(0.1 * (attempt + 1)) is over: the next attempt starts
BackoffOver(c, v) ==
    /\ task[c][v].pc = "backoff"
    /\ task' = [task EXCEPT ![c][v].pc = "attempt", ![c][v].attempt = @ + 1]
    /\ UNCHANGED << now, storeUp, circuit, perf, cache, skuReq, req, ncalls,
                    offers, result, got, setLog, payload, normalized >>

\* _get_vendorN_data(sku) awaited directly, one call of the caller at a time
DirectCall(c, v, sku) ==
    /\ ncalls < MaxCalls
    /\ \A w \in Vendors : task[c][w].pc \in {"none", "settled"}
    /\ ncalls' = ncalls + 1
    /\ EnterCall(c, v, sku)
    /\ UNCHANGED << now, storeUp, perf, cache, skuReq, req, offers, result,
                    got, setLog, payload, normalized >>

\* The clock advances by d seconds, up to the horizon of the run
Tick(d, horizon) ==
    /\ now + d <= horizon
    /\ now' = now + d
    /\ UNCHANGED << storeUp, circuit, perf, cache, skuReq, req, task, ncalls,
                    offers, result, got, setLog, payload, normalized >>


----------------------------------------------------------------------------
(* Initial state: an empty store, no request and no call in progress        *)

\* A get_product handler: where it stands, its sku, its vendor_data once the
\* fan-out is over, and what it returned
IdleRequest ==
    [pc |-> "idle", sku |-> "", vendor_data |-> << >>, response |-> None]

Init ==
    /\ now = 0
    /\ storeUp = TRUE
    /\ circuit = [v \in Vendors |-> None]
    /\ perf = [v \in Vendors |-> None]
    /\ cache = [s \in Skus |-> None]
    /\ skuReq = [s \in Skus |-> None]
    /\ req = [r \in Requests |-> IdleRequest]
    /\ task = [c \in Callers |-> [v \in Vendors |-> IdleTask(v)]]
    /\ ncalls = 0
    /\ offers = << >>
    /\ result = None
    /\ got = None
    /\ payload = None
    /\ normalized = None
    /\ setLog = [s \in Skus |-> None]

----------------------------------------------------------------------------
(* Breaker-wrapped vendor calls made one at a time by a single caller       *)

\* The caller exercises one vendor, the one it started with
KeepsTo(v) == \A w \in Vendors \ {v} : IsNone(circuit[w]) /\ IsNone(perf[w])

CallsVendor(c, v) ==
    /\ KeepsTo(v)
    /\ \E sku \in {"ABC123", "ODD999"} : DirectCall(c, v, sku)

NextCalls ==
    \/ \E v \in Vendors : CallsVendor("t1", v)
    \/ \E v \in Vendors : AttemptReturns("t1", v)
    \/ \E v \in Vendors : AttemptFails("t1", v)
    \/ \E v \in Vendors : BackoffOver("t1", v)
    \/ Tick(TickSeconds, CallHorizon)

SpecCalls == Init /\ [][NextCalls]_vars


----------------------------------------------------------------------------
(* Steps of a breaker-wrapped call, as seen from outside                    *)

\* The caller starts a call on v in this step
Starts(c, v) == ncalls' = ncalls + 1 /\ task'[c][v].pc # "none"

\* The caller's call on v returns in this step, from the named return
Returns(c, v, how) ==
    /\ task[c][v].pc = "attempt" \/ Starts(c, v)
    /\ task'[c][v].pc = "settled"
    /\ task'[c][v].how = how

\* What a reader of circuit:{v} gets: the entry, or the default without one
Persisted(v) == get_circuit_state(v)

----------------------------------------------------------------------------
(* Claims on the circuit breaker, calls made one at a time                  *)

\* C1: from CLOSED with no failure, the first and the second failed call
\* leave the circuit CLOSED (failure count 1, then 2), the third opens it
\* with next_attempt_time = time of that failure + cooldown; a call started
\* on an OPEN circuit before next_attempt_time returns at once, without an
\* attempt on the vendor.
C1_OpensAtThirdFailure ==
    [][\A v \in Vendors :
         /\ (Returns("t1", v, "failed") /\ Persisted(v).state = "CLOSED") =>
              /\ Persisted(v).failure_count = 0 =>
                   /\ Persisted(v)'.state = "CLOSED"
                   /\ Persisted(v)'.failure_count = 1
                   /\ IsNone(Persisted(v)'.next_attempt_time)
              /\ Persisted(v).failure_count = 1 =>
                   /\ Persisted(v)'.state = "CLOSED"
                   /\ Persisted(v)'.failure_count = 2
                   /\ IsNone(Persisted(v)'.next_attempt_time)
              /\ Persisted(v).failure_count = 2 =>
                   /\ Persisted(v)'.state = "OPEN"
                   /\ Persisted(v)'.failure_count = 3
                   /\ Persisted(v)'.next_attempt_time =
                        Some(now + CIRCUIT_COOLDOWN_SECONDS)
         /\ ( /\ Starts("t1", v)
              /\ Persisted(v).state = "OPEN"
              /\ now < Val(Persisted(v).next_attempt_time) ) =>
              /\ task'["t1"][v].pc = "settled"
              /\ task'["t1"][v].how = "short_circuit"
              /\ IsNone(task'["t1"][v].res)
              /\ perf' = perf
              /\ circuit' = circuit
      ]_vars

\* A call was short-circuited by the circuit its third failure opened
C1_Witness ==
    \E v \in Vendors :
        /\ task["t1"][v].how = "short_circuit"
        /\ Persisted(v).state = "OPEN"
        /\ Persisted(v).failure_count = 3
        /\ now < Val(Persisted(v).next_attempt_time)

\* C9: a successful call that entered with the circuit CLOSED and no failure
\* writes nothing to circuit:{v} and returns the normalized vendor answer.
C9_SuccessWhileClosedWritesNothing ==
    [][\A v \in Vendors :
         ( /\ Returns("t1", v, "ok")
           /\ task["t1"][v].read.state = "CLOSED"
           /\ task["t1"][v].read.failure_count = 0 ) =>
           /\ circuit'[v] = circuit[v]
           /\ Persisted(v)' = Persisted(v)
           /\ \E response \in Responses(v, task["t1"][v].sku) :
                /\ ~NormalizeRaises(v, response)
                /\ task'["t1"][v].res = Some(Normalize(v, response))
      ]_vars

\* A call succeeded on a circuit that was never written
C9_Witness ==
    \E v \in Vendors :
        /\ task["t1"][v].how = "ok"
        /\ task["t1"][v].read = CircuitBreakerState(v)
        /\ IsNone(circuit[v])
        /\ ~IsNone(task["t1"][v].res)

\* C10: a successful call that entered HALF_OPEN or with failures counted
\* persists CLOSED, failure count 0, no last_failure_time and no
\* next_attempt_time; after any successful call the persisted count is 0, so
\* the next failure counts as the first.
C10_SuccessResets ==
    [][\A v \in Vendors :
         Returns("t1", v, "ok") =>
           /\ ( \/ task["t1"][v].state.state = "HALF_OPEN"
                \/ task["t1"][v].state.failure_count > 0 ) =>
                /\ ~IsNone(circuit'[v])
                /\ Val(circuit'[v]).exp = now + CIRCUIT_TTL_SECONDS
                /\ LoadsCircuit(Val(circuit'[v]).doc) = CircuitBreakerState(v)
           /\ Persisted(v)'.state = "CLOSED"
           /\ Persisted(v)'.failure_count = 0
           /\ IsNone(Persisted(v)'.last_failure_time)
           /\ IsNone(Persisted(v)'.next_attempt_time)
      ]_vars

\* The probe of a circuit found OPEN after its cooldown succeeded and the
\* entry written is CLOSED again
C10_Witness ==
    \E v \in Vendors :
        /\ task["t1"][v].how = "ok"
        /\ task["t1"][v].read.state = "OPEN"
        /\ task["t1"][v].read.failure_count = 3
        /\ ~IsNone(circuit[v])
        /\ Persisted(v) = CircuitBreakerState(v)


----------------------------------------------------------------------------
(* select_best_vendor called on a list of offers of one SKU, at most one    *)
(* offer per vendor, in any order                                           *)

SelectPrices == {1000, 1100, 1200}
SelectStocks == {0, 5, 20}

\* price, stock and validity of an offer; a valid offer has a price > 0
OfferShapes ==
    { sh \in [price : SelectPrices \cup {0}, stock : SelectStocks,
              is_valid : BOOLEAN] : sh.is_valid => sh.price > 0 }

Injective(f) == \A i, j \in DOMAIN f : i # j => f[i] # f[j]

InitSelect ==
    /\ now = 0
    /\ storeUp = TRUE
    /\ circuit = [v \in Vendors |-> None]
    /\ perf = [v \in Vendors |-> None]
    /\ cache = [s \in Skus |-> None]
    /\ skuReq = [s \in Skus |-> None]
    /\ req = [r \in Requests |-> IdleRequest]
    /\ task = [c \in Callers |-> [v \in Vendors |-> IdleTask(v)]]
    /\ ncalls = 0
    /\ result = None
    /\ got = None
    /\ payload = None
    /\ normalized = None
    /\ setLog = [s \in Skus |-> None]
    /\ \E n \in 0..MaxOffers :
         \E vs \in [1..n -> Vendors], shapes \in [1..n -> OfferShapes] :
           /\ Injective(vs)
           /\ offers = [i \in 1..n |->
                          NormalizedProduct("ABC123", vs[i], shapes[i].stock,
                                            shapes[i].price, 0,
                                            shapes[i].is_valid)]

Select ==
    /\ IsNone(result)
    /\ result' = Some(select_best_vendor(offers))
    /\ UNCHANGED << now, storeUp, circuit, perf, cache, skuReq, req, task,
                    ncalls, offers, got, setLog, payload, normalized >>

NextSelect == Select

SpecSelect == InitSelect /\ [][NextSelect]_vars

\* The offers that count: valid and in stock
Counts(p) == p.is_valid /\ p.stock > 0
AllCount == offers # << >> /\ \A i \in DOMAIN offers : Counts(offers[i])

\* C2: the status is OUT_OF_STOCK, with no vendor, price or stock, exactly
\* when no offer is valid with stock > 0; otherwise it is AVAILABLE.
C2_OutOfStockIffNothingCounts ==
    ~IsNone(result) =>
        LET r == Val(result)
            some == \E i \in DOMAIN offers : Counts(offers[i])
        IN  /\ ~IsRaised(r)
            /\ r.status = "OUT_OF_STOCK" <=> ~some
            /\ r.status = "OUT_OF_STOCK" =>
                 IsNone(r.best_vendor) /\ IsNone(r.price) /\ IsNone(r.stock)
            /\ r.status # "OUT_OF_STOCK" =>
                 r.status = "AVAILABLE" /\ ~IsNone(r.best_vendor)

\* OUT_OF_STOCK for a valid offer without stock beside an invalid one with
\* stock
C2_Witness ==
    /\ ~IsNone(result)
    /\ Val(result).status = "OUT_OF_STOCK"
    /\ \E i \in DOMAIN offers : offers[i].is_valid /\ offers[i].stock = 0
    /\ \E i \in DOMAIN offers : ~offers[i].is_valid /\ offers[i].stock > 0

\* C18: vendors_checked is the length of the list given to
\* select_best_vendor, invalid offers and offers without stock included,
\* whatever the status; it is 0 exactly for the empty list.
C18_VendorsCheckedIsLength ==
    ~IsNone(result) =>
        /\ ~IsRaised(Val(result))
        /\ Val(result).vendors_checked = Len(offers)
        /\ Val(result).vendors_checked = 0 <=> offers = << >>

\* AVAILABLE from three offers of which one is invalid and one has no stock
C18_Witness ==
    /\ ~IsNone(result)
    /\ Val(result).status = "AVAILABLE"
    /\ Val(result).vendors_checked = 3
    /\ \E i \in DOMAIN offers : ~offers[i].is_valid
    /\ \E i \in DOMAIN offers : offers[i].is_valid /\ offers[i].stock = 0

\* Ascending price order, offers of equal price in the order given
Before(i, j) ==
    \/ offers[i].price < offers[j].price
    \/ offers[i].price = offers[j].price /\ i < j

IsBaseline(b) == \A j \in DOMAIN offers : j # b => Before(b, j)

\* More than 10% above the baseline's price, and more stock than it
Overrides(j, b) ==
    /\ (offers[j].price - offers[b].price) * 10 > offers[b].price
    /\ offers[j].stock > offers[b].stock

IsWinner(r, w) ==
    /\ r.best_vendor = Some(offers[w].vendor_name)
    /\ r.price = Some(offers[w].price)
    /\ r.stock = Some(offers[w].stock)

\* C3: on valid in-stock offers the winner is the first offer in ascending
\* price order that is more than 10% above the lowest price with more stock
\* than the lowest-priced offer, and the lowest-priced offer when there is
\* none (an offer exactly 10% above does not override).
C3_FirstOverrideElseBaseline ==
    (~IsNone(result) /\ AllCount) =>
        \E b, w \in DOMAIN offers :
            /\ IsBaseline(b)
            /\ IsWinner(Val(result), w)
            /\ \/ /\ Overrides(w, b)
                  /\ \A j \in DOMAIN offers :
                       (j # w /\ Overrides(j, b)) => Before(w, j)
               \/ /\ w = b
                  /\ \A j \in DOMAIN offers : ~Overrides(j, b)

\* The offer 20% above the baseline won, past one exactly 10% above it that
\* had the same stock advantage
C3_Witness ==
    /\ ~IsNone(result)
    /\ AllCount
    /\ Val(result).price = Some(1200)
    /\ \E b, j \in DOMAIN offers :
         /\ offers[b].price = 1000 /\ offers[b].stock = 5
         /\ offers[j].price = 1100 /\ offers[j].stock = 20

OrdersOf(n) == { f \in [1..n -> 1..n] : Injective(f) }
Permuted(s, f) == [i \in 1..Len(s) |-> s[f[i]]]

SameForEveryOrder ==
    \A f \in OrdersOf(Len(offers)) :
        select_best_vendor(Permuted(offers, f)) = Val(result)

\* C4 as stated: every permutation of the offers gives the same result.
C4_AnyOrderSameResult == ~IsNone(result) => SameForEveryOrder

\* No two offers that count have the same price
DistinctPrices ==
    \A i, j \in DOMAIN offers :
        (i # j /\ Counts(offers[i]) /\ Counts(offers[j]))
            => offers[i].price # offers[j].price

\* C4, amended: every permutation of the offers gives the same result when
\* no two valid in-stock offers have the same price.
C4_AnyOrderSameResultDistinctPrices ==
    (~IsNone(result) /\ DistinctPrices) => SameForEveryOrder

\* Three valid in-stock offers of three prices, the override taken
C4_Witness ==
    /\ ~IsNone(result)
    /\ DistinctPrices
    /\ Len(offers) = 3
    /\ AllCount
    /\ Val(result).price # Some(1000)


----------------------------------------------------------------------------
(* The result cache used on its own: set_product and get_product calls      *)

\* Results handed to set_product: the two kinds select_best_vendor returns,
\* and one that was itself read from the cache
CachedResults(sku) ==
    { ProductResponse("UNKNOWN", None, None, None, "OUT_OF_STOCK", 0),
      ProductResponse(sku, Some("vendor2"), Some(1850), Some(15),
                      "AVAILABLE", 3),
      [ProductResponse(sku, Some("vendor3"), Some(1775), Some(20),
                       "AVAILABLE", 2) EXCEPT !.cache_hit = TRUE] }

CacheSet(sku) ==
    /\ \E product \in CachedResults(sku) :
         /\ cache' = set_product(sku, product)
         /\ setLog' = [setLog EXCEPT ![sku] =
                          Some([product |-> product, at |-> now])]
    /\ UNCHANGED << now, storeUp, circuit, perf, skuReq, req, task, ncalls,
                    offers, result, got, payload, normalized >>

CacheGet(sku) ==
    /\ got' = Some([sku |-> sku, at |-> now, value |-> get_product(sku)])
    /\ UNCHANGED << now, storeUp, circuit, perf, cache, skuReq, req, task,
                    ncalls, offers, result, setLog, payload, normalized >>

\* The keys the calls are made on
CacheSkus == {"ABC123", "OUT123"}

NextCache ==
    \/ \E sku \in CacheSkus : CacheSet(sku)
    \/ \E sku \in CacheSkus : CacheGet(sku)
    \/ Tick(TickSeconds, MaxTime)

SpecCache == Init /\ [][NextCache]_vars

\* A get_product(sku) call returns in this step
Gets(sku) == got' # got /\ Val(got').sku = sku

\* C5: get_product(sku) less than 120 seconds after the last
\* set_product(sku, r) returns r with cache_hit true and every other field as
\* given; 120 seconds or more after it, and when nothing was set, it returns
\* nothing.
C5_CacheRoundTrip ==
    [][\A sku \in Skus :
         Gets(sku) =>
           IF ~IsNone(setLog[sku]) /\ now - Val(setLog[sku]).at < 120
           THEN Val(got').value =
                  Some([Val(setLog[sku]).product EXCEPT !.cache_hit = TRUE])
           ELSE IsNone(Val(got').value)
      ]_vars

\* A hit on a result set with a vendor, and a miss on an expired entry
C5_Witness ==
    /\ ~IsNone(got)
    /\ ~IsNone(Val(got).value)
    /\ Val(Val(got).value).best_vendor = Some("vendor2")
    /\ Val(Val(got).value).cache_hit
    /\ Val(got).at > Val(setLog[Val(got).sku]).at

C5_WitnessExpired ==
    /\ ~IsNone(got)
    /\ IsNone(Val(got).value)
    /\ ~IsNone(setLog[Val(got).sku])
    /\ Val(got).at >= Val(setLog[Val(got).sku]).at + 120


----------------------------------------------------------------------------
(* vendor_service.py: get_all_vendor_data, and main.py: get_product         *)

\* As AllSettled, returning as soon as one call has settled
AnySettled(r) == \E v \in Vendors : task[r][v].pc = "settled"

\* await asyncio.gather(*tasks, return_exceptions=True) is over
AllSettled(r) == \A v \in Vendors : task[r][v].pc = "settled"

\* The time at which the call of r on v returned its offer, which the
\* offer's timestamp tells: vendors 1 and 2 stamp their answer with the
\* present time, vendor 3 with the time two minutes earlier
AnsweredAt(r, v) ==
    IF task[r][v].how # "ok" THEN 0
    ELSE Val(task[r][v].res).timestamp + (IF v = "vendor3" THEN 120 ELSE 0)

\* As GatherResults, the results taken in the order in which the calls
\* returned
GatherResultsAsSettled(r) ==
    LET n == Len(VendorOrder)
        key(i) == AnsweredAt(r, VendorOrder[i]) * (n + 1) + i
        order == CHOOSE f \in [1..n -> 1..n] :
                     /\ \A i, j \in 1..n : i # j => f[i] # f[j]
                     /\ \A i, j \in 1..n : i < j => key(f[i]) < key(f[j])
    IN  [i \in 1..n |-> task[r][VendorOrder[order[i]]].res]

\* The results of gather, in the order of the tasks list
GatherResults(r) == [i \in 1..Len(VendorOrder) |-> task[r][VendorOrder[i]].res]

IsProduct(res) == ~IsNone(res)

\* As CollectProducts, stopping at the first result that is no product
RECURSIVE CollectUntilMissing(_)
CollectUntilMissing(results) ==
    IF results = << >> \/ ~IsProduct(Head(results)) THEN << >>
    ELSE << Val(Head(results)) >> \o CollectUntilMissing(Tail(results))

\* Lines 46-51: keep the results that are a NormalizedProduct
RECURSIVE CollectProducts(_)
CollectProducts(results) ==
    IF results = << >> THEN << >>
    ELSE IF IsProduct(Head(results))
         THEN << Val(Head(results)) >> \o CollectProducts(Tail(results))
         ELSE CollectProducts(Tail(results))

\* The request passed SKU validation and rate limiting: line 159 counts it
GetProduct(r, sku) ==
    /\ req[r].pc = "idle"
    /\ skuReq' = increment_sku_requests(sku)
    /\ req' = [req EXCEPT ![r] = [IdleRequest EXCEPT !.pc = "counted",
                                                     !.sku = sku]]
    /\ UNCHANGED << now, storeUp, circuit, perf, cache, task, ncalls, offers,
                    result, got, setLog, payload, normalized >>

\* Lines 162-167: answer from the cache, or schedule the three vendor calls
Lookup(r) ==
    /\ req[r].pc = "counted"
    /\ LET cached_result == get_product(req[r].sku)
       IN  IF ~IsNone(cached_result)
           THEN /\ req' = [req EXCEPT ![r].pc = "done",
                                      ![r].response = cached_result]
                /\ UNCHANGED task
           ELSE /\ req' = [req EXCEPT ![r].pc = "fanout"]
                /\ task' = [task EXCEPT ![r] =
                               [v \in Vendors |->
                                  [IdleTask(v) EXCEPT !.pc = "scheduled",
                                                      !.sku = req[r].sku]]]
    /\ UNCHANGED << now, storeUp, circuit, perf, cache, skuReq, ncalls,
                    offers, result, got, setLog, payload, normalized >>

\* A scheduled vendor call runs up to its first await
StartTask(r, v) ==
    /\ task[r][v].pc = "scheduled"
    /\ EnterCall(r, v, task[r][v].sku)
    /\ UNCHANGED << now, storeUp, perf, cache, skuReq, req, ncalls, offers,
                    result, got, setLog, payload, normalized >>

\* Lines 167-181: gather is over; collect, select, cache, return
Join(r) ==
    /\ req[r].pc = "fanout"
    /\ AllSettled(r)
    /\ LET vendor_data == CollectProducts(GatherResults(r))
           selected == select_best_vendor(vendor_data)
       IN  IF IsRaised(selected)
           THEN /\ req' = [req EXCEPT ![r].pc = "done",
                                      ![r].vendor_data = vendor_data,
                                      ![r].response =
                                          Some(Raised("HTTPException 500"))]
                /\ UNCHANGED << cache, setLog >>
           ELSE /\ req' = [req EXCEPT ![r].pc = "done",
                                      ![r].vendor_data = vendor_data,
                                      ![r].response = Some(selected)]
                /\ cache' = set_product(req[r].sku, selected)
                /\ setLog' = [setLog EXCEPT ![req[r].sku] =
                                 Some([product |-> selected, at |-> now])]
    /\ UNCHANGED << now, storeUp, circuit, perf, skuReq, task, ncalls, offers,
                    result, got, payload, normalized >>

\* What earlier traffic may have left for a vendor at time 0: nothing, two
\* failed calls, or three failed calls and an open circuit
Histories == {"fresh", "failed twice", "opened"}

FailedCalls(h) == IF h = "fresh" THEN 0 ELSE IF h = "failed twice" THEN 2 ELSE 3

\* The circuit entry n failed calls leave
AfterFailures(v, n) ==
    IF n = 0 THEN CircuitBreakerState(v)
    ELSE IF n = 1 THEN StateOnFailure(CircuitBreakerState(v))
    ELSE IF n = 2 THEN StateOnFailure(StateOnFailure(CircuitBreakerState(v)))
    ELSE StateOnFailure(StateOnFailure(StateOnFailure(CircuitBreakerState(v))))

\* The performance entry n failed attempts leave
AfterFailedAttempts(v, n) ==
    IF n = 0 THEN None
    ELSE Entry(DumpsPerformance(
                 [VendorPerformance(v) EXCEPT
                    !.total_requests = n,
                    !.failed_requests = n,
                    !.last_failure = Some(now),
                    !.avg_latency_ms = [num |-> n * LatencyMs(v), den |-> n]]),
               PERFORMANCE_TTL_SECONDS)

InitService ==
    /\ now = 0
    /\ storeUp = TRUE
    /\ \E h \in [Vendors -> Histories] :
         /\ circuit = [v \in Vendors |->
                         IF h[v] = "fresh" THEN None
                         ELSE Entry(DumpsCircuit(AfterFailures(v, FailedCalls(h[v]))),
                                    CIRCUIT_TTL_SECONDS)]
         /\ perf = [v \in Vendors |->
                      AfterFailedAttempts(v, FailedCalls(h[v]) * (MAX_RETRIES + 1))]
    /\ cache = [s \in Skus |-> None]
    /\ skuReq = [s \in Skus |-> None]
    /\ req = [r \in Requests |-> IdleRequest]
    /\ task = [c \in Callers |-> [v \in Vendors |-> IdleTask(v)]]
    /\ ncalls = 0
    /\ offers = << >>
    /\ result = None
    /\ got = None
    /\ payload = None
    /\ normalized = None
    /\ setLog = [s \in Skus |-> None]

\* The handlers that serve a request in Spec
Serving == {"r1"}

Next ==
    \/ \E r \in Serving, sku \in Skus : GetProduct(r, sku)
    \/ \E r \in Serving : Lookup(r)
    \/ \E r \in Serving, v \in Vendors : StartTask(r, v)
    \/ \E r \in Serving, v \in Vendors : AttemptReturns(r, v)
    \/ \E r \in Serving, v \in Vendors : AttemptFails(r, v)
    \/ \E r \in Serving, v \in Vendors : BackoffOver(r, v)
    \/ \E r \in Serving : Join(r)
    \/ Tick(TickSeconds, ServiceHorizon)

Spec == InitService /\ [][Next]_vars

----------------------------------------------------------------------------
(* Claims on the fan-out and on the request handler                         *)

\* The handler went through the fan-out and has returned
FannedOut(r) == req[r].pc = "done" /\ AllSettled(r)

\* The vendors whose breaker-wrapped call returned a product
Produced(r) == { v \in Vendors : task[r][v].how = "ok" }

\* The positions of vendor_data that hold an offer of v
OffersOf(r, v) ==
    { i \in 1..Len(req[r].vendor_data) : req[r].vendor_data[i].vendor_name = v }

\* C6: get_product returns a selection result and never an error, whatever
\* each vendor call came to (product, all attempts failed, short-circuited);
\* when no vendor call produced a product the result is OUT_OF_STOCK with
\* vendors_checked = 0.
C6_AlwaysASelectionResult ==
    \A r \in Serving :
        req[r].pc = "done" =>
            /\ ~IsNone(req[r].response)
            /\ ~IsRaised(Val(req[r].response))
            /\ Val(req[r].response).status \in {"AVAILABLE", "OUT_OF_STOCK"}
            /\ (FannedOut(r) /\ Produced(r) = {}) =>
                  /\ Val(req[r].response).status = "OUT_OF_STOCK"
                  /\ Val(req[r].response).vendors_checked = 0

\* A request was answered after one vendor was short-circuited and the two
\* others failed all their attempts
C6_Witness ==
    \E r \in Serving :
        /\ FannedOut(r)
        /\ \E v \in Vendors : task[r][v].how = "short_circuit"
        /\ \E v \in Vendors : task[r][v].how = "failed"
        /\ Produced(r) = {}
        /\ Val(req[r].response).vendors_checked = 0

\* C7: get_all_vendor_data returns exactly one offer for each vendor whose
\* call produced a product, the product itself, and none for a vendor whose
\* call failed or was short-circuited; it raises nothing, and returns the
\* empty list when no call produced a product.
C7_OneOfferPerProducingVendor ==
    \A r \in Serving :
        FannedOut(r) =>
            /\ \A v \in Produced(r) :
                  /\ Cardinality(OffersOf(r, v)) = 1
                  /\ \A i \in OffersOf(r, v) :
                        req[r].vendor_data[i] = Val(task[r][v].res)
            /\ \A v \in Vendors \ Produced(r) : OffersOf(r, v) = {}
            /\ Len(req[r].vendor_data) = Cardinality(Produced(r))
            /\ Produced(r) = {} => req[r].vendor_data = << >>

\* The first vendor failed, the second was short-circuited, the third
\* produced the one offer returned
C7_Witness ==
    \E r \in Serving :
        /\ FannedOut(r)
        /\ task[r]["vendor1"].how = "failed"
        /\ task[r]["vendor2"].how = "short_circuit"
        /\ Produced(r) = {"vendor3"}
        /\ Len(req[r].vendor_data) = 1

\* C8: the three vendor calls are all scheduled before any of them has
\* settled, the fan-out does not return before every one of them has
\* settled, and a call that has not settled is never dropped, whatever the
\* other calls have already returned.
C8_WaitsForAll ==
    [][\A r \in Serving :
         /\ (\E v \in Vendors : task'[r][v].pc = "settled") =>
               \A v \in Vendors : task'[r][v].pc # "none"
         /\ (req[r].pc = "fanout" /\ req'[r].pc # "fanout") =>
               \A v \in Vendors : task[r][v].pc = "settled"
         /\ \A v \in Vendors :
               task[r][v].pc \in {"scheduled", "attempt", "backoff"} =>
                   /\ task'[r][v].pc # "none"
                   /\ req'[r].pc = "fanout"
      ]_vars

\* One call has produced an in-stock offer while another is between two
\* attempts, and the handler is still waiting
C8_Witness ==
    \E r \in Serving :
        /\ req[r].pc = "fanout"
        /\ \E v \in Vendors :
              /\ task[r][v].how = "ok"
              /\ Val(task[r][v].res).stock > 0
              /\ Val(task[r][v].res).is_valid
        /\ \E v \in Vendors : task[r][v].pc = "backoff"

----------------------------------------------------------------------------
(* Further claims on the circuit breaker, calls made one at a time          *)

\* The wrapped function of the caller's call on v is running
InFunction(c, v) == task[c][v].pc \in {"attempt", "backoff"}

\* C11: a call started on an OPEN circuit at or after next_attempt_time
\* persists HALF_OPEN, the other fields as they were, and enters the wrapped
\* function in the same step; while the function runs the persisted state is
\* HALF_OPEN, and the function is entered once: its attempts only count up
\* until the call returns.
C11_HalfOpenBeforeProbe ==
    [][\A v \in Vendors :
         /\ ( /\ Starts("t1", v)
              /\ Persisted(v).state = "OPEN"
              /\ ~ShortCircuits(Persisted(v)) ) =>
              /\ Persisted(v)' = [Persisted(v) EXCEPT !.state = "HALF_OPEN"]
              /\ task'["t1"][v].pc = "attempt"
              /\ task'["t1"][v].attempt = 0
         /\ (InFunction("t1", v) /\ task["t1"][v].read.state = "OPEN") =>
              /\ Persisted(v).state = "HALF_OPEN"
              /\ task'["t1"][v].pc = "settled" \/ InFunction("t1", v)'
              /\ task'["t1"][v].attempt \in
                    {task["t1"][v].attempt, task["t1"][v].attempt + 1}
      ]_vars

\* The probe of a circuit found OPEN after its cooldown is in the function,
\* with HALF_OPEN persisted
C11_Witness ==
    \E v \in Vendors :
        /\ InFunction("t1", v)
        /\ task["t1"][v].read.state = "OPEN"
        /\ now >= Val(task["t1"][v].read.next_attempt_time)
        /\ Persisted(v).state = "HALF_OPEN"
        /\ Persisted(v).failure_count = 3

\* C12: a call started on an OPEN circuit before next_attempt_time returns
\* in the step it starts, with nothing, having made no attempt; the
\* performance entries and the circuit entries are what they were, and the
\* state the caller holds is the state it read.
C12_ShortCircuitChangesNothing ==
    [][\A v \in Vendors :
         ( /\ Starts("t1", v)
           /\ Persisted(v).state = "OPEN"
           /\ ~IsNone(Persisted(v).next_attempt_time)
           /\ now < Val(Persisted(v).next_attempt_time) ) =>
           /\ Returns("t1", v, "short_circuit")
           /\ ~InFunction("t1", v)'
           /\ task'["t1"][v].attempt = 0
           /\ IsNone(task'["t1"][v].res)
           /\ task'["t1"][v].state = Persisted(v)
           /\ perf' = perf
           /\ get_vendor_performance(v)' = get_vendor_performance(v)
           /\ circuit' = circuit
           /\ Persisted(v)' = Persisted(v)
      ]_vars

\* A call was short-circuited after three failed calls of three attempts:
\* the nine failed attempts are all the performance entry counts
C12_Witness ==
    \E v \in Vendors :
        /\ task["t1"][v].how = "short_circuit"
        /\ task["t1"][v].attempt = 0
        /\ Persisted(v).failure_count = 3
        /\ get_vendor_performance(v).failed_requests = 9

\* C15: one run of the retry loop makes attempts 0, 1 and 2 at most; the
\* attempt that returns is the last, and its offer is what the call returns;
\* the run fails only from a failed attempt 2, and only then is a failure
\* written: the failure count read on entry plus one.  A failed attempt 0 or
\* 1 leaves the circuit entry alone.
C15_BoundedRetriesOneFailure ==
    [][\A v \in Vendors :
         /\ task'["t1"][v].attempt \in 0..MAX_RETRIES
         /\ Returns("t1", v, "ok") =>
               /\ task'["t1"][v].attempt = task["t1"][v].attempt
               /\ ~IsNone(task'["t1"][v].res)
         /\ Returns("t1", v, "failed") =>
               /\ task["t1"][v].attempt = MAX_RETRIES
               /\ IsNone(task'["t1"][v].res)
               /\ Persisted(v)'.failure_count =
                     task["t1"][v].read.failure_count + 1
               /\ Persisted(v)'.failure_count = Persisted(v).failure_count + 1
         /\ (InFunction("t1", v) /\ InFunction("t1", v)') =>
               /\ circuit' = circuit
               /\ task'["t1"][v].attempt >= task["t1"][v].attempt
         /\ task["t1"][v].pc = "settled" =>
               \/ task'["t1"][v] = task["t1"][v]
               \/ \E w \in Vendors : Starts("t1", w)
      ]_vars

\* The first call on a vendor failed: three failed attempts are recorded and
\* one failure is counted
C15_Witness ==
    \E v \in Vendors :
        /\ task["t1"][v].how = "failed"
        /\ task["t1"][v].attempt = MAX_RETRIES
        /\ task["t1"][v].read.failure_count = 0
        /\ Persisted(v).failure_count = 1
        /\ get_vendor_performance(v).failed_requests = MAX_RETRIES + 1

----------------------------------------------------------------------------
(* Breaker-wrapped calls of two callers on one vendor, interleaved at the   *)
(* awaits of the wrapped function                                           *)

\* The vendor both callers call, and what earlier traffic left for it
RaceVendor == "vendor1"

InitRace ==
    /\ now = 0
    /\ storeUp = TRUE
    /\ \E h \in Histories :
         /\ circuit = [v \in Vendors |->
                         IF v # RaceVendor \/ h = "fresh" THEN None
                         ELSE Entry(DumpsCircuit(AfterFailures(v, FailedCalls(h))),
                                    CIRCUIT_TTL_SECONDS)]
         /\ perf = [v \in Vendors |->
                      IF v # RaceVendor THEN None
                      ELSE AfterFailedAttempts(v, FailedCalls(h) * (MAX_RETRIES + 1))]
    /\ cache = [s \in Skus |-> None]
    /\ skuReq = [s \in Skus |-> None]
    /\ req = [r \in Requests |-> IdleRequest]
    /\ task = [c \in Callers |-> [v \in Vendors |-> IdleTask(v)]]
    /\ ncalls = 0
    /\ offers = << >>
    /\ result = None
    /\ got = None
    /\ payload = None
    /\ normalized = None
    /\ setLog = [s \in Skus |-> None]

\* A caller awaits _get_vendor1_data(sku) while the other caller's call may
\* be under way
RaceCall(c, sku) ==
    /\ ncalls < MaxRaceCalls
    /\ DirectCall(c, RaceVendor, sku)

NextRace ==
    \/ \E c \in Direct, sku \in {"ABC123", "ODD999"} : RaceCall(c, sku)
    \/ \E c \in Direct : AttemptReturns(c, RaceVendor)
    \/ \E c \in Direct : AttemptFails(c, RaceVendor)
    \/ \E c \in Direct : BackoffOver(c, RaceVendor)
    \/ Tick(TickSeconds, RaceHorizon)

SpecRace == InitRace /\ [][NextRace]_vars

\* The circuit state a stored entry holds, read or not yet expired or not
StoredCircuit(v) == LoadsCircuit(Val(circuit[v]).doc)

\* The performance record a stored entry holds
StoredPerformance(v) == LoadsPerformance(Val(perf[v]).doc)

\* C13: whatever the interleaving of the two callers' calls, no circuit
\* entry, and no state a reader gets, is CLOSED with next_attempt_time set.
C13_ClosedHasNoNextAttempt ==
    \A v \in Vendors :
        /\ Persisted(v).state = "CLOSED" => IsNone(Persisted(v).next_attempt_time)
        /\ ~IsNone(circuit[v]) =>
              (StoredCircuit(v).state = "CLOSED" =>
                   IsNone(StoredCircuit(v).next_attempt_time))

\* A probe of the opened circuit succeeded and wrote CLOSED while the other
\* caller's call, which had read HALF_OPEN, was still in the function
C13_Witness ==
    \E c \in Direct, d \in Direct :
        /\ c # d
        /\ task[c][RaceVendor].how = "ok"
        /\ task[c][RaceVendor].read.state = "OPEN"
        /\ ~IsNone(task[c][RaceVendor].read.next_attempt_time)
        /\ InFunction(d, RaceVendor)
        /\ task[d][RaceVendor].read.state = "HALF_OPEN"
        /\ ~IsNone(circuit[RaceVendor])
        /\ StoredCircuit(RaceVendor).state = "CLOSED"

\* C14: whatever the interleaving of the attempts recorded, every
\* performance entry, and every record a reader gets, has
\* successful_requests + failed_requests = total_requests.
C14_SuccessesPlusFailures ==
    \A v \in Vendors :
        /\ get_vendor_performance(v).successful_requests
              + get_vendor_performance(v).failed_requests
              = get_vendor_performance(v).total_requests
        /\ ~IsNone(perf[v]) =>
              StoredPerformance(v).successful_requests
                + StoredPerformance(v).failed_requests
                = StoredPerformance(v).total_requests

\* Successes and failures of both callers are recorded, and both callers
\* are in the function
C14_Witness ==
    /\ \A c \in Direct : InFunction(c, RaceVendor)
    /\ ~IsNone(perf[RaceVendor])
    /\ StoredPerformance(RaceVendor).successful_requests >= 2
    /\ StoredPerformance(RaceVendor).failed_requests >= 2
    /\ StoredPerformance(RaceVendor).total_requests >= 4

----------------------------------------------------------------------------
(* One get_product request on a store that may hold the result of an        *)
(* earlier request, or that does not answer                                 *)

\* The SKU an earlier request may have been for, and the SKUs requested
HitSku == "ABC123"
StoreSkus == {"ABC123", "OUT123"}

\* What the earlier request at time 0 may have selected: nothing, every
\* vendor call having failed, or the best of the three vendors' answers
EarlierResults ==
    { select_best_vendor(<< >>),
      select_best_vendor(<< Normalize("vendor1", Vendor1Answer(HitSku)),
                            Normalize("vendor2", Vendor2Answer(HitSku)),
                            Normalize("vendor3", Vendor3Answer(HitSku)) >>) }

InitStore ==
    /\ now = 0
    /\ storeUp \in BOOLEAN
    /\ circuit = [v \in Vendors |-> None]
    /\ perf = [v \in Vendors |-> None]
    /\ \E earlier \in {None} \cup { Some(p) : p \in EarlierResults } :
         /\ cache = [s \in Skus |->
                        IF s = HitSku /\ ~IsNone(earlier)
                        THEN Entry(DumpsProduct(Val(earlier)), CACHE_TTL_SECONDS)
                        ELSE None]
         /\ setLog = [s \in Skus |->
                         IF s = HitSku /\ ~IsNone(earlier)
                         THEN Some([product |-> Val(earlier), at |-> 0])
                         ELSE None]
    /\ skuReq = [s \in Skus |-> None]
    /\ req = [r \in Requests |-> IdleRequest]
    /\ task = [c \in Callers |-> [v \in Vendors |-> IdleTask(v)]]
    /\ ncalls = 0
    /\ offers = << >>
    /\ result = None
    /\ got = None
    /\ payload = None
    /\ normalized = None

NextStore ==
    \/ \E r \in Serving, sku \in StoreSkus : GetProduct(r, sku)
    \/ \E r \in Serving : Lookup(r)
    \/ \E r \in Serving, v \in Vendors : StartTask(r, v)
    \/ \E r \in Serving, v \in Vendors : AttemptReturns(r, v)
    \/ \E r \in Serving, v \in Vendors : AttemptFails(r, v)
    \/ \E r \in Serving, v \in Vendors : BackoffOver(r, v)
    \/ \E r \in Serving : Join(r)
    \/ Tick(CACHE_TTL_SECONDS, MaxTime)

SpecStore == InitStore /\ [][NextStore]_vars

\* The handler returns what it read from the cache in this step
ServesCached(r) == req[r].pc = "counted" /\ req'[r].pc = "done"

\* The handler returns what it selected in this step
ServesSelected(r) == req[r].pc = "fanout" /\ req'[r].pc = "done"

\* C16: get_product answers from the cache exactly when the store holds an
\* unexpired entry for the SKU; the answer is then the result that was set,
\* with cache_hit true, no vendor call is scheduled then or later, and the
\* cache, circuit and performance entries are unchanged (the entry keeps its
\* expiry); an answer produced by selection has cache_hit false.
C16_CacheHitIffFromCache ==
    [][\A r \in Serving :
         /\ ServesCached(r) =>
               /\ storeUp /\ Live(cache[req[r].sku])
               /\ req'[r].response =
                     Some([Val(setLog[req[r].sku]).product
                              EXCEPT !.cache_hit = TRUE])
               /\ \A v \in Vendors : task'[r][v].pc = "none"
               /\ cache' = cache
               /\ circuit' = circuit
               /\ perf' = perf
         /\ (req[r].pc = "counted" /\ req'[r].pc = "fanout") =>
               ~(storeUp /\ Live(cache[req[r].sku]))
         /\ ServesSelected(r) =>
               /\ ~IsRaised(Val(req'[r].response))
               /\ ~Val(req'[r].response).cache_hit
               /\ \A v \in Vendors : task[r][v].pc = "settled"
         /\ (req[r].pc = "done" /\ \A v \in Vendors : task[r][v].pc = "none") =>
               /\ Val(req[r].response).cache_hit
               /\ \A v \in Vendors : task'[r][v].pc = "none"
               /\ circuit' = circuit /\ perf' = perf /\ cache' = cache
      ]_vars

\* A request was answered from the entry an earlier request left, and the
\* entry still expires when it did
C16_Witness ==
    \E r \in Serving :
        /\ req[r].pc = "done"
        /\ Val(req[r].response).cache_hit
        /\ Val(req[r].response).best_vendor = Some("vendor3")
        /\ \A v \in Vendors : task[r][v].pc = "none"
        /\ Val(cache[HitSku]).exp = CACHE_TTL_SECONDS
        /\ ~IsNone(skuReq[HitSku])

\* C17: with the store not answering, get_product runs the three vendor
\* calls to their end and returns what select_best_vendor makes of their
\* offers, with cache_hit false and no error; nothing is read from or written
\* to the store.
C17_StoreDownStillSelects ==
    [][\A r \in Serving :
         ~storeUp =>
           /\ ~ServesCached(r)
           /\ ServesSelected(r) =>
                 /\ \A v \in Vendors : task[r][v].pc = "settled"
                 /\ req'[r].vendor_data = CollectProducts(GatherResults(r))
                 /\ req'[r].response =
                       Some(select_best_vendor(req'[r].vendor_data))
                 /\ ~IsRaised(Val(req'[r].response))
                 /\ ~Val(req'[r].response).cache_hit
           /\ cache' = cache /\ skuReq' = skuReq
           /\ circuit' = circuit /\ perf' = perf
      ]_vars

\* The store holds an unexpired result for the SKU but does not answer: the
\* request was served from the three vendors' offers
C17_Witness ==
    \E r \in Serving :
        /\ ~storeUp
        /\ req[r].pc = "done"
        /\ req[r].sku = HitSku
        /\ ~IsNone(cache[HitSku]) /\ now < Val(cache[HitSku]).exp
        /\ Val(req[r].response).status = "AVAILABLE"
        /\ Val(req[r].response).vendors_checked = 3
        /\ ~Val(req[r].response).cache_hit

----------------------------------------------------------------------------
(* The three adapters applied to a vendor's raw response                    *)

\* Ages of a payload's timestamp in seconds: now, ten minutes, a second
\* more, and a minute in the future
PayloadAges == {0, FreshnessSeconds, FreshnessSeconds + 1, 0 - 60}

\* UTC offsets a vendor 1 timestamp may carry, in seconds; the server's
\* clock, datetime.now(), is on UTC
PayloadOffsets == {0, 3600}

TimestampTexts(at) ==
    {BadText} \cup { GoodText(at - age) : age \in PayloadAges }

Vendor1Payloads(at) ==
    { Vendor1Response("ABC123", a, c, p, t) :
        a \in {"IN_STOCK", "OUT_OF_STOCK"},
        c \in {None, Some(0), Some(10), Some(0 - 1)},
        p \in {0, 1999, 0 - 500},
        t \in TimestampTexts(at) \cup
              { ZonedText(at - age + o, o) :
                  age \in PayloadAges, o \in PayloadOffsets } }

Vendor2Payloads(at) ==
    { Vendor2Response("ABC123", st, q, c, at - age) :
        st \in {"AVAILABLE", "UNAVAILABLE"},
        q \in {0, 15, 0 - 2},
        c \in {Dollars(1850), Dollars(0), Dollars(0 - 100),
               [symbol |-> "", amount |-> Some(1850)],
               [symbol |-> "EUR", amount |-> Some(1850)],
               [symbol |-> "", amount |-> None]},
        age \in PayloadAges }

Vendor3Payloads(at) ==
    { Vendor3Response("ABC123", st, l, p, t) :
        st \in {"ACTIVE", "INACTIVE"},
        l \in {None, Some(<< "word", "" >>), Some(<< "word", "LOW" >>),
               Some(<< "word", "HIGH" >>), Some(<< "word", "MANY" >>),
               Some(<< "int", 20 >>), Some(<< "int", 0 >>),
               Some(<< "int", 0 - 3 >>)},
        p \in {None, Some(0), Some(1775), Some(0 - 1)},
        t \in TimestampTexts(at) }

Payloads(vendor, at) ==
    CASE vendor = "vendor1" -> Vendor1Payloads(at)
      [] vendor = "vendor2" -> Vendor2Payloads(at)
      [] OTHER -> Vendor3Payloads(at)

InitNormalize ==
    /\ now = NormalizeClock
    /\ storeUp = TRUE
    /\ circuit = [v \in Vendors |-> None]
    /\ perf = [v \in Vendors |-> None]
    /\ cache = [s \in Skus |-> None]
    /\ skuReq = [s \in Skus |-> None]
    /\ req = [r \in Requests |-> IdleRequest]
    /\ task = [c \in Callers |-> [v \in Vendors |-> IdleTask(v)]]
    /\ ncalls = 0
    /\ offers = << >>
    /\ result = None
    /\ got = None
    /\ setLog = [s \in Skus |-> None]
    /\ \E v \in Vendors : \E response \in Payloads(v, NormalizeClock) :
         payload = Some([vendor |-> v, response |-> response])
    /\ normalized = None

\* _normalize_vendorN_response(response): the offer, or the ValueError of
\* the timestamp parser
NormalizePayload ==
    /\ IsNone(normalized)
    /\ LET v == Val(payload).vendor
           response == Val(payload).response
       IN  normalized' = IF NormalizeRaises(v, response)
                         THEN Some(Raised("ValueError"))
                         ELSE Some(Normalize(v, response))
    /\ UNCHANGED << now, storeUp, circuit, perf, cache, skuReq, req, task,
                    ncalls, offers, result, got, setLog, payload >>

NextNormalize == NormalizePayload

SpecNormalize == InitNormalize /\ [][NextNormalize]_vars

\* The adapter returned an offer for the payload
Offered == ~IsNone(normalized) /\ ~IsRaised(Val(normalized))

\* The time the payload's timestamp stands for, on the server's clock
ObservedAt ==
    LET v == Val(payload).vendor
        response == Val(payload).response
    IN  CASE v = "vendor1" ->
               IF Len(response.last_updated) = 3
               THEN response.last_updated[2] - response.last_updated[3]
               ELSE response.last_updated[2]
          [] v = "vendor2" -> response.timestamp
          [] OTHER -> response.data_timestamp[2]

\* C19: the offer an adapter returns is valid exactly when its price is
\* > 0 and the payload's timestamp is at most ten minutes before now.
C19_ValidIffPricedAndFresh ==
    Offered =>
        (Val(normalized).is_valid <=>
            /\ Val(normalized).price > 0
            /\ now - ObservedAt <= DATA_FRESHNESS_MINUTES * 60)

\* The same for the payloads whose timestamp carries no UTC offset or the
\* server's own
C19_ValidIffPricedAndFreshOnServerClock ==
    (Offered /\ ObservedAt = Parsed(TimestampText(Val(payload).vendor,
                                                  Val(payload).response))) =>
        (Val(normalized).is_valid <=>
            /\ Val(normalized).price > 0
            /\ now - ObservedAt <= DATA_FRESHNESS_MINUTES * 60)

\* A vendor 1 payload stamped a second more than ten minutes ago, at
\* +01:00, came out valid
C19_Witness ==
    /\ Offered
    /\ Val(payload).vendor = "vendor1"
    /\ now - ObservedAt = DATA_FRESHNESS_MINUTES * 60 + 1
    /\ Val(normalized).is_valid

\* C20: adapter 1 gives stock 0 for availability OUT_OF_STOCK, stock 5 for
\* IN_STOCK without an inventory count, and the inventory count itself, 0
\* included, for IN_STOCK with one.
C20_Vendor1StockRule ==
    (Offered /\ Val(payload).vendor = "vendor1") =>
        LET response == Val(payload).response
            stock == Val(normalized).stock
        IN  /\ response.availability = "OUT_OF_STOCK" => stock = 0
            /\ ( /\ response.availability = "IN_STOCK"
                 /\ IsNone(response.inventory_count) ) => stock = 5
            /\ ( /\ response.availability = "IN_STOCK"
                 /\ ~IsNone(response.inventory_count) ) =>
                  stock = Val(response.inventory_count)

\* IN_STOCK with an inventory count of 0 came out with stock 0
C20_Witness ==
    /\ Offered
    /\ Val(payload).vendor = "vendor1"
    /\ Val(payload).response.availability = "IN_STOCK"
    /\ Val(payload).response.inventory_count = Some(0)
    /\ Val(normalized).stock = 0

\* C21: adapter 3 gives stock 0 when the status is not ACTIVE or the stock
\* level is absent; otherwise the integer the stock level is the text of,
\* 3 for "LOW", 25 for "HIGH", 0 for any other text; the price is
\* price_amount, or 0 without one.
C21_Vendor3StockAndPrice ==
    (Offered /\ Val(payload).vendor = "vendor3") =>
        LET response == Val(payload).response
            level == response.stock_level
            stock == Val(normalized).stock
        IN  /\ (response.status # "ACTIVE" \/ IsNone(level)) => stock = 0
            /\ (response.status = "ACTIVE" /\ ~IsNone(level)) =>
                  /\ Val(level)[1] = "int" => stock = Val(level)[2]
                  /\ Val(level) = << "word", "LOW" >> => stock = 3
                  /\ Val(level) = << "word", "HIGH" >> => stock = 25
                  /\ ( /\ Val(level)[1] = "word"
                       /\ Val(level)[2] \notin {"LOW", "HIGH"} ) => stock = 0
            /\ Val(normalized).price =
                  (IF IsNone(response.price_amount)
                   THEN 0 ELSE Val(response.price_amount))

\* ACTIVE with stock level "LOW" and a price came out with stock 3, valid
C21_Witness ==
    /\ Offered
    /\ Val(payload).vendor = "vendor3"
    /\ Val(payload).response.status = "ACTIVE"
    /\ Val(payload).response.stock_level = Some(<< "word", "LOW" >>)
    /\ Val(normalized).stock = 3
    /\ Val(normalized).price = 1775
    /\ Val(normalized).is_valid

\* C22: adapter 2 gives as price the number cost_per_unit is the text of
\* once the "$" is removed, and 0 when what remains is no number; as stock
\* quantity_on_hand when stock_status is AVAILABLE, and 0 otherwise.
C22_Vendor2PriceAndStock ==
    (Offered /\ Val(payload).vendor = "vendor2") =>
        LET response == Val(payload).response
            cost == response.cost_per_unit
        IN  /\ (cost.symbol \in {"", "$"} /\ ~IsNone(cost.amount)) =>
                  Val(normalized).price = Val(cost.amount)
            /\ (cost.symbol \notin {"", "$"} \/ IsNone(cost.amount)) =>
                  Val(normalized).price = 0
            /\ response.stock_status = "AVAILABLE" =>
                  Val(normalized).stock = response.quantity_on_hand
            /\ response.stock_status # "AVAILABLE" =>
                  Val(normalized).stock = 0

\* "$18.50" with 15 on hand, AVAILABLE, came out as price 1850, stock 15
C22_Witness ==
    /\ Offered
    /\ Val(payload).vendor = "vendor2"
    /\ Val(payload).response.cost_per_unit = Dollars(1850)
    /\ Val(payload).response.stock_status = "AVAILABLE"
    /\ Val(normalized).price = 1850
    /\ Val(normalized).stock = 15

----------------------------------------------------------------------------
(* The same payload normalized at more than one moment                       *)

\* _normalize_vendorN_response(response) called again on the same payload
NormalizeAgain ==
    /\ ~IsNone(normalized)
    /\ LET v == Val(payload).vendor
           response == Val(payload).response
       IN  normalized' = IF NormalizeRaises(v, response)
                         THEN Some(Raised("ValueError"))
                         ELSE Some(Normalize(v, response))
    /\ UNCHANGED << now, storeUp, circuit, perf, cache, skuReq, req, task,
                    ncalls, offers, result, got, setLog, payload >>

NextNormalizeTwice ==
    \/ NormalizePayload
    \/ NormalizeAgain
    \/ Tick(NormalizeTick, NormalizeHorizon)

SpecNormalizeTwice == InitNormalize /\ [][NextNormalizeTwice]_vars

\* The offer the adapter yields for the payload at this moment
OfferNow == Normalize(Val(payload).vendor, Val(payload).response)

\* C23: the offer an adapter yielded for a payload is, in every field, valid
\* included, the offer it yields for the same payload at any other moment.
C23_SameOfferAtAnyMoment ==
    Offered => Val(normalized) = OfferNow

\* What does hold: the two offers agree in every field but is_valid
C23_SameOfferButValid ==
    Offered => [Val(normalized) EXCEPT !.is_valid = OfferNow.is_valid] = OfferNow

\* An offer yielded valid, whose payload yields an invalid offer later
C23_Witness ==
    /\ Offered
    /\ now > NormalizeClock
    /\ Val(normalized).is_valid
    /\ ~OfferNow.is_valid
    /\ Val(normalized).price = OfferNow.price
    /\ Val(normalized).timestamp = OfferNow.timestamp

----------------------------------------------------------------------------
(* Answers an adapter cannot parse                                           *)

\* A field of the answer is a text its adapter cannot parse: the timestamp,
\* vendor 2's cost_per_unit, or vendor 3's stock level
Unparseable(vendor, response) ==
    \/ ~Parses(TimestampText(vendor, response))
    \/ /\ vendor = "vendor2"
       /\ \/ response.cost_per_unit.symbol \notin {"", "$"}
          \/ IsNone(response.cost_per_unit.amount)
    \/ /\ vendor = "vendor3"
       /\ ~IsNone(response.stock_level)
       /\ Val(response.stock_level)[1] = "word"
       /\ Val(response.stock_level)[2] \notin {"LOW", "HIGH"}

\* C24: an answer with a field the adapter cannot parse gives an offer with
\* is_valid false and is never raised: the attempt that received it settles
\* the call with that offer, without a backoff and a further attempt,
\* without a failed request in the vendor's performance record and without
\* a higher failure_count in the circuit's state.
C24_UnparseableAnswerNeverRaised ==
    [][ \A c \in Callers, v \in Vendors :
          ( /\ AttemptReturns(c, v)
            /\ \A response \in Responses(v, task[c][v].sku) :
                 Unparseable(v, response) )
          => /\ task'[c][v].pc = "settled"
             /\ task'[c][v].how = "ok"
             /\ ~Val(task'[c][v].res).is_valid
             /\ PerformanceIn(perf', v).failed_requests =
                  PerformanceIn(perf, v).failed_requests
             /\ task'[c][v].state.failure_count <=
                  task[c][v].state.failure_count ]_vars

\* A call whose every attempt was answered with a timestamp that does not
\* parse has made all its attempts and settled as a failure counted by the
\* circuit, each attempt recorded as a success and as a failure
C24_Witness ==
    LET t == task["t1"]["vendor1"]
    IN  /\ t.pc = "settled"
        /\ t.sku = "ODD999"
        /\ t.how = "failed"
        /\ t.attempt = MAX_RETRIES
        /\ t.state.failure_count = t.read.failure_count + 1
        /\ Persisted("vendor1").failure_count = t.state.failure_count
        /\ get_vendor_performance("vendor1").successful_requests = MAX_RETRIES + 1
        /\ get_vendor_performance("vendor1").failed_requests = MAX_RETRIES + 1

----------------------------------------------------------------------------
(* The ranges of an offer's stock and price                                  *)

\* C25: every offer an adapter yields, for every payload, has stock >= 0
\* and price >= 0.
C25_StockAndPriceNotNegative ==
    Offered => Val(normalized).stock >= 0 /\ Val(normalized).price >= 0

\* What does hold: a valid offer has a price above 0
C25_ValidOfferPriced ==
    (Offered /\ Val(normalized).is_valid) => Val(normalized).price > 0

\* A valid offer with a negative stock, which the payload carried
C25_Witness ==
    /\ Offered
    /\ Val(normalized).is_valid
    /\ Val(normalized).stock < 0
    /\ Val(payload).vendor = "vendor1"
    /\ Val(payload).response.inventory_count = Some(Val(normalized).stock)

----------------------------------------------------------------------------
(* The order of the steps of get_product                                     *)

\* The number of requests counted for a SKU
RequestsCounted(sku) ==
    IF Live(skuReq[sku]) THEN Val(skuReq[sku]).doc ELSE 0

\* C26: the popularity counter of a SKU is incremented last: only after
\* the request has looked the SKU up in the cache and, on a miss, after
\* fan-out, selection and the write of the result to the cache.
C26_CountedLast ==
    \A sku \in Skus :
        RequestsCounted(sku) > 0 =>
            \E r \in Requests :
                /\ req[r].sku = sku
                /\ req[r].pc = "done"
                /\ ~IsNone(req[r].response)
                /\ (AllSettled(r) /\ ~IsRaised(Val(req[r].response)))
                      => ~IsNone(setLog[sku])

\* What does hold: a request is counted before its cache lookup, so every
\* request past the first line of the handler has been counted
C26_CountedFirst ==
    \A r \in Requests :
        req[r].pc # "idle" => RequestsCounted(req[r].sku) > 0

\* A request counted, its fan-out under way and nothing written yet
C26_Witness ==
    /\ req["r1"].pc = "fanout"
    /\ RequestsCounted(req["r1"].sku) = 1
    /\ IsNone(cache[req["r1"].sku])
    /\ \E v \in Vendors : InFunction("r1", v)

----------------------------------------------------------------------------
(* Two callers racing on one circuit                                         *)

\* The call of c on the raced vendor settles as a failure in this step
FailsNow(c) ==
    /\ task[c][RaceVendor].pc # "settled"
    /\ task'[c][RaceVendor].pc = "settled"
    /\ task'[c][RaceVendor].how = "failed"

\* C27: the circuit state is read on entry and written after the wrapped
\* call: a failing call persists the failure_count it read plus one,
\* whatever another call has persisted in between, so that of two
\* concurrent failing calls only one is counted.
C27_FailurePersistsCountReadPlusOne ==
    [][ \A c \in Direct :
          FailsNow(c) =>
              /\ ~IsNone(circuit'[RaceVendor])
              /\ StoredCircuit(RaceVendor)'.failure_count =
                   task[c][RaceVendor].state.failure_count + 1 ]_vars

\* Three calls on a vendor without history have failed in all their
\* attempts, two of them concurrently, and the circuit persisted is CLOSED
\* with failure_count 2
C27_Witness ==
    /\ ncalls = 3
    /\ \A c \in Direct : /\ task[c][RaceVendor].pc = "settled"
                         /\ task[c][RaceVendor].how = "failed"
    /\ \E c \in Direct : task[c][RaceVendor].read.failure_count = 0
    /\ ~IsNone(perf[RaceVendor])
    /\ StoredPerformance(RaceVendor).successful_requests = 0
    /\ StoredPerformance(RaceVendor).failed_requests = 3 * (MAX_RETRIES + 1)
    /\ ~IsNone(circuit[RaceVendor])
    /\ StoredCircuit(RaceVendor).state = "CLOSED"
    /\ StoredCircuit(RaceVendor).failure_count = 2

----------------------------------------------------------------------------
(* Two get_product requests for one SKU at the same time                     *)

\* The SKU both requests are for, and the vendor whose transport may fail
FlightSku == "ABC123"
FlakyVendor == "vendor3"

NextFlight ==
    \/ \E r \in Requests : GetProduct(r, FlightSku)
    \/ \E r \in Requests : Lookup(r)
    \/ \E r \in Requests, v \in Vendors : StartTask(r, v)
    \/ \E r \in Requests, v \in Vendors : AttemptReturns(r, v)
    \/ \E r \in Requests : AttemptFails(r, FlakyVendor)
    \/ \E r \in Requests : BackoffOver(r, FlakyVendor)
    \/ \E r \in Requests : Join(r)

SpecFlight == Init /\ [][NextFlight]_vars

\* The request found no live entry and scheduled its vendor calls
Misses(r) == req[r].pc = "counted" /\ req'[r].pc = "fanout"

\* C28: there is no single-flight per SKU.  A request that misses the
\* cache schedules its own call of each vendor, whatever another request
\* for the SKU is doing, and a request that has selected a result writes
\* it to the cache, whatever entry another request has written there.
C28_NoSingleFlight ==
    [][ \A r \in Requests :
          /\ Misses(r) => \A v \in Vendors : /\ task'[r][v].pc = "scheduled"
                                             /\ task'[r][v].sku = req[r].sku
          /\ (ServesSelected(r) /\ ~IsRaised(Val(req'[r].response))) =>
                /\ \A v \in Vendors : task[r][v].pc = "settled"
                /\ cache'[req[r].sku] =
                     Entry(DumpsProduct(Val(req'[r].response)),
                           CACHE_TTL_SECONDS) ]_vars

\* Both requests for the SKU missed, ran their own vendor calls and
\* selected different results; the entry holds the result of the second,
\* written over the result of the first
C28_Witness ==
    /\ \A r \in Requests : /\ req[r].sku = FlightSku
                           /\ FannedOut(r)
                           /\ ~IsRaised(Val(req[r].response))
    /\ Val(req["r1"].response) # Val(req["r2"].response)
    /\ task["r1"][FlakyVendor].how = "failed"
    /\ task["r2"][FlakyVendor].how = "ok"
    /\ cache[FlightSku] =
          Entry(DumpsProduct(Val(req["r2"].response)), CACHE_TTL_SECONDS)

----------------------------------------------------------------------------
(* Probes of an open circuit                                                 *)

\* Caller c starts a call on the raced vendor in this step
StartsNow(c) ==
    /\ task[c][RaceVendor].pc \in {"none", "settled"}
    /\ task'[c][RaceVendor] # task[c][RaceVendor]

\* C29: the probe of an open circuit is not limited to one caller.  A call
\* that reads OPEN once next_attempt_time has come, and a call that reads
\* HALF_OPEN, go on to the wrapped function, whether or not another call
\* is in the function and has yet to record its outcome.
C29_EveryCallerProbes ==
    [][ \A c \in Direct :
          StartsNow(c) =>
              LET read == task'[c][RaceVendor].read
              IN  /\ read.state = "HALF_OPEN" => InFunction(c, RaceVendor)'
                  /\ ( /\ read.state = "OPEN"
                       /\ ~IsNone(read.next_attempt_time)
                       /\ now >= Val(read.next_attempt_time) )
                        => /\ InFunction(c, RaceVendor)'
                           /\ StoredCircuit(RaceVendor)'.state = "HALF_OPEN" ]_vars

\* Both callers are in the function, one having read OPEN after the
\* cooldown and the other HALF_OPEN, and no outcome is recorded yet
C29_Witness ==
    \E c \in Direct, d \in Direct :
        /\ c # d
        /\ InFunction(c, RaceVendor)
        /\ InFunction(d, RaceVendor)
        /\ task[c][RaceVendor].read.state = "OPEN"
        /\ now >= Val(task[c][RaceVendor].read.next_attempt_time)
        /\ task[d][RaceVendor].read.state = "HALF_OPEN"
        /\ ~IsNone(circuit[RaceVendor])
        /\ StoredCircuit(RaceVendor).state = "HALF_OPEN"

----------------------------------------------------------------------------
(* What replaces a persisted OPEN                                            *)

\* The entry of the raced vendor holds OPEN and is written in this step
OpenReplaced ==
    /\ ~IsNone(circuit[RaceVendor])
    /\ StoredCircuit(RaceVendor).state = "OPEN"
    /\ circuit'[RaceVendor] # circuit[RaceVendor]

\* Caller c's call, which was in the function, settles in this step
SettlesNow(c) ==
    /\ InFunction(c, RaceVendor)
    /\ task'[c][RaceVendor].pc = "settled"

\* C30: under any interleaving a persisted OPEN is replaced only
\* by HALF_OPEN and only once next_attempt_time has come, never by CLOSED
\* or by a state with a lower failure_count.
C30_OpenOnlyYieldsToHalfOpen ==
    [][ OpenReplaced =>
          LET old == StoredCircuit(RaceVendor)
              new == StoredCircuit(RaceVendor)'
          IN  /\ new.state # "CLOSED"
              /\ new.failure_count >= old.failure_count
              /\ new.state = "HALF_OPEN" =>
                    now >= Val(old.next_attempt_time) ]_vars

\* What does hold: a call that starts while OPEN is persisted replaces it only
\* by HALF_OPEN and only once next_attempt_time has come, and otherwise
\* returns without invoking the function or writing; every other write
\* over OPEN is that of a call which was in the function already and
\* persists its own state, the one it read on entry updated by its outcome.
C30_OpenYieldsToProbeOrStaleCall ==
    [][ /\ OpenReplaced =>
            \E c \in Direct :
                \/ /\ StartsNow(c)
                   /\ now >= Val(StoredCircuit(RaceVendor).next_attempt_time)
                   /\ StoredCircuit(RaceVendor)' =
                        [StoredCircuit(RaceVendor) EXCEPT !.state = "HALF_OPEN"]
                \/ /\ SettlesNow(c)
                   /\ StoredCircuit(RaceVendor)' = task'[c][RaceVendor].state
                   /\ task'[c][RaceVendor].state \in
                        { StateOnSuccess(task[c][RaceVendor].state),
                          StateOnFailure(task[c][RaceVendor].state) }
        /\ \A c \in Direct :
              ( /\ StartsNow(c)
                /\ task'[c][RaceVendor].read.state = "OPEN"
                /\ now < Val(task'[c][RaceVendor].read.next_attempt_time) )
              => /\ ~InFunction(c, RaceVendor)'
                 /\ circuit' = circuit ]_vars

\* Of two concurrent calls that read CLOSED with two failures, one failed
\* and opened the circuit, and the other then succeeded and wrote CLOSED
\* with no failures, the cooldown not being over
C30_Witness ==
    \E c \in Direct, d \in Direct :
        /\ c # d
        /\ ncalls = 2
        /\ task[c][RaceVendor].pc = "settled"
        /\ task[c][RaceVendor].how = "ok"
        /\ task[c][RaceVendor].read.state = "CLOSED"
        /\ task[c][RaceVendor].read.failure_count = 2
        /\ task[d][RaceVendor].pc = "settled"
        /\ task[d][RaceVendor].how = "failed"
        /\ task[d][RaceVendor].state.state = "OPEN"
        /\ now < Val(task[d][RaceVendor].state.next_attempt_time)
        /\ ~IsNone(circuit[RaceVendor])
        /\ StoredCircuit(RaceVendor).state = "CLOSED"
        /\ StoredCircuit(RaceVendor).failure_count = 0

----------------------------------------------------------------------------
(* The shape of the circuit states persisted by calls made one at a time     *)

\* CLOSED below the threshold; OPEN and HALF_OPEN at or above it, with
\* next_attempt_time set
WellFormedCircuit(st) ==
    /\ st.state = "CLOSED" => st.failure_count < CIRCUIT_FAILURE_THRESHOLD
    /\ st.state \in {"OPEN", "HALF_OPEN"} =>
          /\ st.failure_count >= CIRCUIT_FAILURE_THRESHOLD
          /\ ~IsNone(st.next_attempt_time)

\* C31: with the calls on a vendor made one at a time, every circuit state
\* persisted, and every state a reader gets, is CLOSED with failure_count
\* below the threshold, or OPEN or HALF_OPEN with failure_count at or above
\* it and next_attempt_time set; so a probe that fails has persisted OPEN
\* with next_attempt_time = the time of the failure + the cooldown.
C31_CircuitWellFormed ==
    \A v \in Vendors :
        /\ WellFormedCircuit(Persisted(v))
        /\ ~IsNone(circuit[v]) => WellFormedCircuit(StoredCircuit(v))
        /\ \A c \in Direct :
              LET t == task[c][v]
              IN  ( /\ t.pc = "settled"
                    /\ t.how = "failed"
                    /\ t.read.state \in {"OPEN", "HALF_OPEN"} )
                  => /\ StoredCircuit(v) = t.state
                     /\ t.state.state = "OPEN"
                     /\ t.state.next_attempt_time =
                          Some(Val(t.state.last_failure_time)
                                 + CIRCUIT_COOLDOWN_SECONDS)

\* The probe of an opened circuit failed and OPEN is persisted again, with
\* a later next_attempt_time
C31_Witness ==
    LET t == task["t1"]["vendor1"]
    IN  /\ t.pc = "settled"
        /\ t.how = "failed"
        /\ t.read.state = "OPEN"
        /\ StoredCircuit("vendor1").state = "OPEN"
        /\ StoredCircuit("vendor1").failure_count = CIRCUIT_FAILURE_THRESHOLD + 1
        /\ Val(StoredCircuit("vendor1").next_attempt_time)
              > Val(t.read.next_attempt_time)

----------------------------------------------------------------------------
(* A vendor that recovers                                                    *)

\* The circuit as a caller reads it is CLOSED without failures
ClosedWithoutFailures(v) ==
    /\ Persisted(v).state = "CLOSED"
    /\ Persisted(v).failure_count = 0

\* A caller awaits _get_vendor1_data.  Calls keep being made as long as
\* the circuit of the recovered vendor is not CLOSED without failures;
\* otherwise up to MaxRecoverCalls of them are made.
RecoverCall(c) ==
    /\ \/ ncalls < MaxRecoverCalls
       \/ now >= RecoverAt /\ ~ClosedWithoutFailures(RaceVendor)
    /\ \A w \in Vendors : task[c][w].pc \in {"none", "settled"}
    /\ ncalls' = IF ncalls < MaxRecoverCalls THEN ncalls + 1 ELSE ncalls
    /\ EnterCall(c, RaceVendor, "ABC123")
    /\ UNCHANGED << now, storeUp, perf, cache, skuReq, req, offers, result,
                    got, setLog, payload, normalized >>

\* The vendor's transport fails only before the vendor has recovered
AttemptFailsBeforeRecovery(c) ==
    /\ now < RecoverAt
    /\ AttemptFails(c, RaceVendor)

\* An attempt under way comes to its end
AttemptEnds(c) ==
    AttemptReturns(c, RaceVendor) \/ AttemptFailsBeforeRecovery(c)

NextRecover ==
    \/ \E c \in Direct : RecoverCall(c)
    \/ \E c \in Direct : AttemptReturns(c, RaceVendor)
    \/ \E c \in Direct : AttemptFailsBeforeRecovery(c)
    \/ \E c \in Direct : BackoffOver(c, RaceVendor)
    \/ Tick(TickSeconds, RecoverHorizon)

\* Time advances, calls are made, the vendor answers or fails within its
\* timeout, and a backoff sleep ends
FairRecover ==
    /\ WF_vars(Tick(TickSeconds, RecoverHorizon))
    /\ \A c \in Direct : /\ WF_vars(RecoverCall(c))
                         /\ WF_vars(AttemptEnds(c))
                         /\ WF_vars(BackoffOver(c, RaceVendor))

SpecRecover == InitRace /\ [][NextRecover]_vars /\ FairRecover

\* C32: once every invocation of the vendor succeeds, with time advancing
\* and calls being made, the vendor's circuit eventually is CLOSED with
\* failure_count 0 and stays so.
C32_RecoveredVendorCloses ==
    <>[]ClosedWithoutFailures(RaceVendor)

\* A probe of the circuit that had opened succeeded after the recovery and
\* the circuit is CLOSED without failures
C32_Witness ==
    \E c \in Direct :
        /\ now >= RecoverAt
        /\ task[c][RaceVendor].pc = "settled"
        /\ task[c][RaceVendor].how = "ok"
        /\ task[c][RaceVendor].read.state = "OPEN"
        /\ ~IsNone(circuit[RaceVendor])
        /\ StoredCircuit(RaceVendor).state = "CLOSED"
        /\ StoredCircuit(RaceVendor).failure_count = 0

----------------------------------------------------------------------------
(* The SKU of a result                                                       *)

\* C33: the result a get_product request returns, and the entry written
\* under the key of the SKU, carry the SKU requested, also when no vendor
\* produced an offer.
C33_ResultCarriesRequestedSku ==
    /\ \A r \in Requests :
          ( /\ req[r].pc = "done"
            /\ ~IsRaised(Val(req[r].response)) )
          => Val(req[r].response).sku = req[r].sku
    /\ \A sku \in Skus :
          ~IsNone(cache[sku]) => Val(cache[sku]).doc.sku = sku

\* What does hold: the SKU of the result is the SKU requested whenever a
\* vendor produced an offer
C33_ResultCarriesSkuOfOffers ==
    \A r \in Requests :
        ( /\ req[r].pc = "done"
          /\ ~IsRaised(Val(req[r].response))
          /\ req[r].vendor_data # << >> )
        => Val(req[r].response).sku = req[r].sku

\* No vendor produced an offer: the result returned for ABC123 and the
\* entry written under the key of ABC123 carry the SKU "UNKNOWN"
C33_Witness ==
    /\ req["r1"].pc = "done"
    /\ req["r1"].sku = "ABC123"
    /\ FannedOut("r1")
    /\ Produced("r1") = {}
    /\ Val(req["r1"].response).sku = "UNKNOWN"
    /\ ~IsNone(cache["ABC123"])
    /\ Val(cache["ABC123"]).doc.sku = "UNKNOWN"

----------------------------------------------------------------------------
(* A request during an outage of every vendor, and a later request           *)

\* The SKU both requests are for
OutageSku == "ABC123"

\* Every vendor's circuit has opened at time 0
InitOutage ==
    /\ now = 0
    /\ storeUp = TRUE
    /\ circuit = [v \in Vendors |->
                    Entry(DumpsCircuit(AfterFailures(v, FailedCalls("opened"))),
                          CIRCUIT_TTL_SECONDS)]
    /\ perf = [v \in Vendors |->
                 AfterFailedAttempts(v, FailedCalls("opened") * (MAX_RETRIES + 1))]
    /\ cache = [s \in Skus |-> None]
    /\ skuReq = [s \in Skus |-> None]
    /\ req = [r \in Requests |-> IdleRequest]
    /\ task = [c \in Callers |-> [v \in Vendors |-> IdleTask(v)]]
    /\ ncalls = 0
    /\ offers = << >>
    /\ result = None
    /\ got = None
    /\ payload = None
    /\ normalized = None
    /\ setLog = [s \in Skus |-> None]

\* The second request arrives once the first has been answered
LaterGetProduct ==
    /\ req["r1"].pc = "done"
    /\ GetProduct("r2", OutageSku)

NextOutage ==
    \/ GetProduct("r1", OutageSku)
    \/ LaterGetProduct
    \/ \E r \in Requests : Lookup(r)
    \/ \E r \in Requests, v \in Vendors : StartTask(r, v)
    \/ \E r \in Requests, v \in Vendors : AttemptReturns(r, v)
    \/ \E r \in Requests, v \in Vendors : AttemptFails(r, v)
    \/ \E r \in Requests, v \in Vendors : BackoffOver(r, v)
    \/ \E r \in Requests : Join(r)
    \/ Tick(TickSeconds, OutageHorizon)

SpecOutage == InitOutage /\ [][NextOutage]_vars

\* The live entry of the SKU holds a result selected from no offer
HoldsResultOfOutage(sku) ==
    /\ storeUp
    /\ Live(cache[sku])
    /\ Val(cache[sku]).doc.status = "OUT_OF_STOCK"
    /\ Val(cache[sku]).doc.vendors_checked = 0

\* C34: the OUT_OF_STOCK result of a request whose vendor calls all failed
\* or were short-circuited is written to the cache like any other, and a
\* later request for the SKU within the TTL is answered with it, cache_hit
\* true, without a vendor call, whatever the vendors would answer by then.
C34_OutageResultCachedAndServed ==
    [][ \A r \in Requests :
          /\ ( /\ ServesSelected(r)
               /\ Produced(r) = {} )
             => /\ ~IsRaised(Val(req'[r].response))
                /\ Val(req'[r].response).status = "OUT_OF_STOCK"
                /\ cache'[req[r].sku] =
                     Entry(DumpsProduct(Val(req'[r].response)),
                           CACHE_TTL_SECONDS)
          /\ ( /\ req[r].pc = "counted"
               /\ req'[r] # req[r]
               /\ HoldsResultOfOutage(req[r].sku) )
             => /\ req'[r].pc = "done"
                /\ Val(req'[r].response).status = "OUT_OF_STOCK"
                /\ Val(req'[r].response).cache_hit
                /\ task' = task
                /\ circuit' = circuit
                /\ perf' = perf
                /\ cache' = cache ]_vars

\* The first request found every circuit open and selected from no offer;
\* the second, made after the cooldown and within the TTL, was answered
\* from the cache without a vendor call
C34_Witness ==
    /\ req["r1"].pc = "done"
    /\ FannedOut("r1")
    /\ Produced("r1") = {}
    /\ req["r2"].pc = "done"
    /\ \A v \in Vendors : task["r2"][v].pc = "none"
    /\ Val(req["r2"].response).status = "OUT_OF_STOCK"
    /\ Val(req["r2"].response).cache_hit
    /\ now >= CIRCUIT_COOLDOWN_SECONDS
    /\ now < CACHE_TTL_SECONDS
    /\ \A v \in Vendors : ~ShortCircuits(Persisted(v))

----------------------------------------------------------------------------
(* What a vendor's call leaves alone                                         *)

\* A step of request r's breaker call on vendor x
CallStep(r, x) ==
    /\ task[r][x].pc # "none"
    /\ task'[r][x] # task[r][x]

\* C35: a breaker call on a vendor, whatever its outcome, leaves the
\* circuit state, the performance record and the calls of every other
\* vendor as they are, and the offer of every vendor whose call returned
\* one is in the vendor_data of the request, whatever became of the others.
C35_OtherVendorsUntouched ==
    [][ \A r \in Requests :
          /\ \A x \in Vendors :
                CallStep(r, x) =>
                    \A w \in Vendors \ {x} :
                        /\ circuit'[w] = circuit[w]
                        /\ perf'[w] = perf[w]
                        /\ task'[r][w] = task[r][w]
          /\ ServesSelected(r) =>
                \A v \in Vendors :
                    task[r][v].how = "ok" =>
                        \E i \in 1..Len(req'[r].vendor_data) :
                            req'[r].vendor_data[i] = Val(task[r][v].res) ]_vars

\* Vendor 1 failed in all attempts and vendor 2 was short-circuited; the
\* offer of vendor 3 is the vendor_data of the request, and vendor 3 has
\* no circuit entry and no failure on record
C35_Witness ==
    /\ FannedOut("r1")
    /\ task["r1"]["vendor1"].how = "failed"
    /\ task["r1"]["vendor2"].how = "short_circuit"
    /\ task["r1"]["vendor3"].how = "ok"
    /\ req["r1"].vendor_data = << Val(task["r1"]["vendor3"].res) >>
    /\ IsNone(circuit["vendor3"])
    /\ get_vendor_performance("vendor3").failed_requests = 0
    /\ get_vendor_performance("vendor3").successful_requests = 1

----------------------------------------------------------------------------
(* Attempts counted by the performance record, calls by the circuit          *)

\* An attempt of c's call on v comes to its end in this step
AttemptOver(c, v) ==
    /\ task[c][v].pc = "attempt"
    /\ task'[c][v] # task[c][v]

\* The performance record of v grows by the given numbers in this step
Adds(v, successes, failures) ==
    LET old == get_vendor_performance(v)
        new == get_vendor_performance(v)'
    IN  /\ new.successful_requests = old.successful_requests + successes
        /\ new.failed_requests = old.failed_requests + failures
        /\ new.total_requests = old.total_requests + successes + failures

\* C36: the performance record counts attempts, the circuit breaker calls.
\* An attempt the vendor fails adds one failure and one request, and the
\* circuit is written only by the last of them, which ends a call of
\* MAX_RETRIES + 1 failed attempts with failure_count + 1; an attempt that
\* succeeds after k failed ones adds one success to the k failures on
\* record and leaves the circuit CLOSED with failure_count 0.
C36_AttemptsCountedCallsJudged ==
    [][ \A v \in Vendors :
          LET t == task["t1"][v]
              u == task'["t1"][v]
          IN  AttemptOver("t1", v) =>
                /\ ( get_vendor_performance(v)'.successful_requests
                       = get_vendor_performance(v).successful_requests )
                    => /\ Adds(v, 0, 1)
                       /\ t.attempt < MAX_RETRIES
                            => u.pc = "backoff" /\ circuit' = circuit
                       /\ t.attempt = MAX_RETRIES
                            => /\ u.how = "failed"
                               /\ Persisted(v)'.failure_count =
                                    t.read.failure_count + 1
                /\ u.how = "ok"
                    => /\ Adds(v, 1, 0)
                       /\ Persisted(v)'.state = "CLOSED"
                       /\ Persisted(v)'.failure_count = 0
                /\ ( ncalls = 1 /\ t.sku = "ABC123" )
                    => /\ get_vendor_performance(v).failed_requests = t.attempt
                       /\ get_vendor_performance(v).successful_requests = 0 ]_vars

\* The first call failed twice and then succeeded: two failures and one
\* success are on record, and the circuit has no failure
C36_Witness ==
    LET t == task["t1"]["vendor3"]
    IN  /\ ncalls = 1
        /\ t.pc = "settled"
        /\ t.how = "ok"
        /\ t.attempt = 2
        /\ get_vendor_performance("vendor3").failed_requests = 2
        /\ get_vendor_performance("vendor3").successful_requests = 1
        /\ get_vendor_performance("vendor3").total_requests = 3
        /\ Persisted("vendor3").failure_count = 0

----------------------------------------------------------------------------
(* The popularity counter under concurrent requests                          *)

\* The requests for a SKU that have passed validation and rate limiting
RequestsFor(sku) ==
    { r \in Requests : req[r].pc # "idle" /\ req[r].sku = sku }

\* C37: the popularity counter of a SKU equals the number of get_product
\* requests for it that passed validation and rate limiting, cache hits
\* included, under every interleaving of the requests.
C37_EveryRequestCountedOnce ==
    \A sku \in Skus : RequestsCounted(sku) = Cardinality(RequestsFor(sku))

\* Two requests for the SKU are counted, one answered after a fan-out and
\* the other from the cache
C37_Witness ==
    /\ RequestsCounted(FlightSku) = 2
    /\ \A r \in Requests : req[r].pc = "done"
    /\ \E r \in Requests : FannedOut(r)
    /\ \E r \in Requests : /\ \A v \in Vendors : task[r][v].pc = "none"
                           /\ Val(req[r].response).cache_hit

----------------------------------------------------------------------------
(* Calls on a failing vendor while the circuit state cannot be read          *)

\* The store answers or not; the vendor's circuit is as earlier calls at
\* time 0 left it
InitBlind ==
    /\ now = 0
    /\ storeUp \in BOOLEAN
    /\ \E h \in Histories :
         /\ circuit = [v \in Vendors |->
                         IF v # RaceVendor \/ h = "fresh" THEN None
                         ELSE Entry(DumpsCircuit(AfterFailures(v, FailedCalls(h))),
                                    CIRCUIT_TTL_SECONDS)]
         /\ perf = [v \in Vendors |->
                      IF v # RaceVendor THEN None
                      ELSE AfterFailedAttempts(v, FailedCalls(h) * (MAX_RETRIES + 1))]
    /\ cache = [s \in Skus |-> None]
    /\ skuReq = [s \in Skus |-> None]
    /\ req = [r \in Requests |-> IdleRequest]
    /\ task = [c \in Callers |-> [v \in Vendors |-> IdleTask(v)]]
    /\ ncalls = 0
    /\ offers = << >>
    /\ result = None
    /\ got = None
    /\ payload = None
    /\ normalized = None
    /\ setLog = [s \in Skus |-> None]

\* One caller's calls on a vendor that fails every attempt; the clock may
\* jump past the lifetime of the circuit entry
NextBlind ==
    \/ DirectCall("t1", RaceVendor, "ABC123")
    \/ AttemptFails("t1", RaceVendor)
    \/ BackoffOver("t1", RaceVendor)
    \/ Tick(CIRCUIT_TTL_SECONDS, BlindHorizon)

SpecBlind == InitBlind /\ [][NextBlind]_vars

\* The circuit state of the vendor cannot be read
Unreadable(v) == ~storeUp \/ ~Live(circuit[v])

\* C38: a call that cannot read the circuit state (store unreachable, or
\* entry expired) goes on as with CLOSED and failure_count 0 and invokes
\* the function; while the store is unreachable nothing is written, no
\* call is short-circuited and the state read stays CLOSED, however many
\* calls have failed.
C38_UnreadableCircuitActsClosed ==
    [][ /\ ( StartsNow("t1") /\ Unreadable(RaceVendor) )
          => /\ task'["t1"][RaceVendor].read = CircuitBreakerState(RaceVendor)
             /\ InFunction("t1", RaceVendor)'
        /\ ~storeUp
          => /\ circuit' = circuit
             /\ task'["t1"][RaceVendor].how # "short_circuit"
             /\ Persisted(RaceVendor)'.state = "CLOSED"
             /\ Persisted(RaceVendor)'.failure_count = 0 ]_vars

\* With the store unreachable the fifth call in a row has failed in all
\* its attempts, having read CLOSED without failures
C38_Witness ==
    /\ ~storeUp
    /\ ncalls = MaxCalls
    /\ task["t1"][RaceVendor].pc = "settled"
    /\ task["t1"][RaceVendor].how = "failed"
    /\ task["t1"][RaceVendor].read.state = "CLOSED"
    /\ task["t1"][RaceVendor].read.failure_count = 0

\* The circuit opened at time 0; after the lifetime of its entry a call
\* read CLOSED without failures and went on to the function
C38_WitnessExpired ==
    /\ storeUp
    /\ now >= CIRCUIT_TTL_SECONDS
    /\ InFunction("t1", RaceVendor)
    /\ task["t1"][RaceVendor].read = CircuitBreakerState(RaceVendor)
    /\ ~IsNone(circuit[RaceVendor])
    /\ StoredCircuit(RaceVendor).state = "OPEN"

----------------------------------------------------------------------------
(* The order of the offers of a fan-out                                      *)

\* The place of a vendor in the tasks list of get_all_vendor_data
Position(v) == CHOOSE i \in 1..Len(VendorOrder) : VendorOrder[i] = v

\* C39: the vendor_data of a request holds the offers in the order of the
\* tasks list (vendor1, vendor2, vendor3), whatever the order in which the
\* calls returned, and the result is the selection from that list, so the
\* same vendor answers give the same winner under every interleaving.
C39_OffersInVendorOrder ==
    \A r \in Requests :
        FannedOut(r) =>
            LET data == req[r].vendor_data
            IN  /\ \A i, j \in 1..Len(data) :
                      i < j => Position(data[i].vendor_name)
                                 < Position(data[j].vendor_name)
                /\ \A v \in Produced(r) :
                      \E i \in 1..Len(data) : data[i] = Val(task[r][v].res)
                /\ req[r].response =
                      (IF IsRaised(select_best_vendor(data))
                       THEN Some(Raised("HTTPException 500"))
                       ELSE Some(select_best_vendor(data)))

\* Vendor 3 returned its offer before vendor 1 did, and the offer of
\* vendor 1 is the first of the vendor_data
C39_Witness ==
    /\ FannedOut("r1")
    /\ {"vendor1", "vendor3"} \subseteq Produced("r1")
    /\ AnsweredAt("r1", "vendor3") < AnsweredAt("r1", "vendor1")
    /\ req["r1"].vendor_data[1].vendor_name = "vendor1"
    /\ req["r1"].vendor_data[Len(req["r1"].vendor_data)].vendor_name = "vendor3"

====
